---- MODULE Spec2Model ----
(***************************************************************************)
(* Model of sol-sim-ts: the lite-sim simulation engine (runSimulation and  *)
(* executeBatch), the mutation tracker (computeMutation/computeMutations)  *)
(* the Merkle builder (buildMerkleTree, computeMerkleRoot and the leaf     *)
(* encodings), the proposal validator behind runMcmSimulation and the      *)
(* lenient account loader.                                                 *)
(***************************************************************************)
EXTENDS Integers, Sequences, FiniteSets, TLC

VARIABLES
    mode,          \* which development is running: "engine", "mutation", "merkle",
                   \* "leaf", "mcm" or "fetch"
    \* ---- simulation engine ----
    engine,        \* "lite-sim" (src/lite-sim/simulator.ts) or "litesim" (legacy variant)
    sim,           \* the Simulation object handed to runSimulation
    net,           \* the accounts the RPC source of truth holds
    pc,            \* position inside runSimulation / executeBatch
    svm,           \* LiteSVM account table: address -> account or null
    svmSlot,       \* LiteSVM Clock.slot
    svmUnixTs,     \* LiteSVM Clock.unix_timestamp
    loadQueue,     \* entries of accountMap not yet written by loadAccounts
    ovIdx,         \* number of overrides already applied
    stageLog,      \* sandbox calls made while staging, in order
    i,             \* loop variable of runSimulation
    payerCfg,      \* payerConfig of the batch in progress
    tracked,       \* trackedAddresses of the batch in progress
    beforeState,   \* beforeState of the batch in progress
    preSubmit,     \* sandbox table observed right before sendTransaction
    batchResults,  \* batchResults of runSimulation
    submitLog,     \* indices of the batches handed to sendTransaction, in order
    batchStart,    \* sandbox table when executeBatch was entered for the batch in progress
    \* ---- mutation tracker ----
    mTracked, mBefore, mAfter, mOut,
    \* ---- Merkle builder ----
    leaves, mkOut,
    proposal,      \* the Proposal handed to computeMerkleRoot, or null
    swap,          \* two instruction positions to exchange, <<0, 0>> for none
    rootOut,       \* what computeMerkleRoot returned
    swapOut,       \* what computeMerkleRoot returned for the exchanged proposal
    \* ---- leaf encodings ----
    lfA, lfB,      \* two inputs of hashMetadataLeaf / hashOperationLeaf
    lfOut,         \* the byte strings hashed and the leaves, for both inputs
    \* ---- runMcmSimulation ----
    config,        \* RunMcmSimulationConfig, with the content of the proposal file
    mpc,           \* position inside runMcmSimulation
    loaded,        \* the Proposal returned by loadProposal, or null
    work,          \* the steps of simulation work done so far, in order
    \* ---- lenient account loader ----
    requested,     \* the addresses handed to fetchAccounts (`pubkeys`)
    settled,       \* the promises of Promise.allSettled by position, and the order
                   \* in which they settled
    fpc,           \* position inside fetchAccounts
    fetched,       \* the map fetchAccounts resolved with
    \* ---- mcm-runner command line ----
    argv,          \* process.argv.slice(2)
    cpc,           \* position inside main
    cli,           \* what main has so far: options, report, file written, exit status
    \* ---- MCM simulation ----
    mcfg,          \* the proposal with its root and the configured authority
    spc,           \* position inside the run of the MCM simulation
    msim,          \* the Simulation createMcmSimulation returned, or what it threw
    mrun           \* what the engine observed: clock, then one entry per batch

engineVars == <<engine, sim, net, pc, svm, svmSlot, svmUnixTs, loadQueue, ovIdx,
                stageLog, i, payerCfg, tracked, beforeState, preSubmit,
                batchResults, submitLog, batchStart>>
mutVars == <<mTracked, mBefore, mAfter, mOut>>
mkVars == <<leaves, mkOut, proposal, swap, rootOut, swapOut>>
leafVars == <<lfA, lfB, lfOut>>
mcmVars == <<config, mpc, loaded, work>>
fetchVars == <<requested, settled, fpc, fetched>>
cliVars == <<argv, cpc, cli>>
simVars == <<mcfg, spc, msim, mrun>>
vars == <<mode, engineVars, mutVars, mkVars, leafVars, mcmVars, fetchVars, cliVars, simVars>>

(***************************************************************************)
(* JavaScript values: null, undefined and present values.                  *)
(***************************************************************************)
JsNull == <<"null">>
JsUndefined == <<"undefined">>
Some(x) == <<"val", x>>
IsNull(v) == v[1] = "null"
IsVal(v) == v[1] = "val"
Val(v) == v[2]

\* the elements of a sequence
SeqToSet(s) == {s[k] : k \in 1..Len(s)}
(***************************************************************************)
(* Mutation tracker                                                        *)
(***************************************************************************)
\* arraysEqual: length test, then a byte-by-byte scan
arraysEqual(a, b) ==
    IF Len(a) # Len(b) THEN FALSE
    ELSE \A k \in 1..Len(a) : a[k] = b[k]

\* dataChanged as computeMutation computes it
DataChangedMutCreate(before, after) ==
    IF IsVal(before) /\ IsVal(after)
    THEN ~arraysEqual(Val(before).data, Val(after).data)
    ELSE FALSE
DataChanged(before, after) ==
    IF IsVal(before) /\ IsVal(after)
    THEN ~arraysEqual(Val(before).data, Val(after).data)
    ELSE IF IsVal(before) \/ IsVal(after) THEN TRUE ELSE FALSE

\* before?.lamports ?? null
LamportsOf(acc) == IF IsVal(acc) THEN Some(Val(acc).lamports) ELSE JsNull
\* before?.programAddress ?? null
OwnerOf(acc) == IF IsVal(acc) THEN Some(Val(acc).owner) ELSE JsNull
\* dataChanged ? (before ? new Uint8Array(before.data) : null) : null
DataFieldMutAlways(changed, acc) == IF IsVal(acc) THEN Some(Val(acc).data) ELSE JsNull
DataField(changed, acc) ==
    IF changed THEN (IF IsVal(acc) THEN Some(Val(acc).data) ELSE JsNull) ELSE JsNull

computeMutation(pubkey, before, after) ==
    LET dataChanged == DataChanged(before, after)
    IN [pubkey |-> pubkey,
        existedBefore |-> ~IsNull(before),
        existedAfter |-> ~IsNull(after),
        ownerBefore |-> OwnerOf(before),
        ownerAfter |-> OwnerOf(after),
        lamportsBefore |-> LamportsOf(before),
        lamportsAfter |-> LamportsOf(after),
        dataChanged |-> dataChanged,
        dataBefore |-> DataField(dataChanged, before),
        dataAfter |-> DataField(dataChanged, after)]

\* before.get(address) ?? null
MapGet(m, a) == IF a \in DOMAIN m THEN Some(m[a]) ELSE JsNull

\* the filter "only include mutations where something actually changed"
SomethingChangedMutNoOwner(m) ==
    \/ m.existedBefore # m.existedAfter
    \/ m.lamportsBefore # m.lamportsAfter
    \/ m.dataChanged
SomethingChanged(m) ==
    \/ m.existedBefore # m.existedAfter
    \/ m.ownerBefore # m.ownerAfter
    \/ m.lamportsBefore # m.lamportsAfter
    \/ m.dataChanged

\* computeMutations: trackedAddresses is a Set, iterated in insertion order
RECURSIVE computeMutations(_, _, _)
computeMutations(trackedAddresses, before, after) ==
    IF trackedAddresses = <<>> THEN <<>>
    ELSE LET n == Len(trackedAddresses)
             address == trackedAddresses[n]
             rest == computeMutations(SubSeq(trackedAddresses, 1, n - 1), before, after)
             mutation == computeMutation(address, MapGet(before, address), MapGet(after, address))
         IN IF SomethingChanged(mutation) THEN Append(rest, mutation) ELSE rest


(***************************************************************************)
(* Simulation engine: inputs                                               *)
(***************************************************************************)
MaxBatches == 2

Addr == {"prog", "pd", "a1", "a2", "payer"}
BPF_LOADER_UPGRADEABLE_ID == "BPFLoaderUpgradeab1e"
SYSTEM_PROGRAM == "system"
\* airdrop of the legacy engine, in SOL (100n * LAMPORTS_PER_SOL lamports)
AIRDROP_AMOUNT == 100

Account(l, d, o, e) == [lamports |-> l, data |-> d, owner |-> o, executable |-> e]

\* what the RPC node holds for each address when the address exists on chain
ChainAccount(a) ==
    CASE a = "prog"  -> Account(1, <<7>>, BPF_LOADER_UPGRADEABLE_ID, TRUE)
      [] a = "pd"    -> Account(1, <<8>>, BPF_LOADER_UPGRADEABLE_ID, FALSE)
      [] a = "a1"    -> Account(3, <<0>>, "mcm", FALSE)
      [] a = "a2"    -> Account(1, <<>>, SYSTEM_PROGRAM, FALSE)
      [] a = "payer" -> Account(1, <<>>, SYSTEM_PROGRAM, FALSE)

\* the RPC states considered: every address exists except those of `missing`
NetWithout(missing) == [a \in Addr |-> IF a \in missing THEN JsNull ELSE Some(ChainAccount(a))]
NetChoices == {NetWithout(m) : m \in {{}, {"a1"}, {"pd"}}}

\* the ProgramData PDA of an upgradeable program
ProgramDataOf(a) == "pd"

OverrideA == Account(9, <<1>>, "mcm", FALSE)
OverrideA2 == Account(9, <<1, 1>>, "mcm", FALSE)
OverrideB == Account(0, <<>>, "mcm", FALSE)
LoadChoices == {<<>>, <<"prog", "a1", "payer", "a1">>}
OverrideChoices == {<<>>,
                    <<<<"a2", OverrideB>>, <<"a1", OverrideA>>>>,
                    <<<<"a1", OverrideA>>, <<"a1", OverrideA2>>>>}
ClockChoices == {JsNull, Some(5)}
AirdropChoices == {JsUndefined, Some(2)}

\* an instruction is named by what the program it invokes does
BatchChoices == {<<"transfer">>, <<"write", "transfer">>, <<"close">>}
BatchLists == UNION {[1..n -> BatchChoices] : n \in 0..MaxBatches}
\* accountsToTrack(i): insertion-ordered sets, different per batch
TrackChoices == {[t \in 0..(MaxBatches + 1) |-> IF t % 2 = 0 THEN <<"a1", "payer">> ELSE <<"a2", "a1">>],
                 [t \in 0..(MaxBatches + 1) |-> IF t % 2 = 0 THEN <<"a2", "payer", "a1">> ELSE <<>>]}

Simulations ==
    [accountsToLoad : LoadChoices,
     accountOverrides : OverrideChoices,
     clockTimestamp : ClockChoices,
     airdropAmount : AirdropChoices,
     payer : {"payer"},
     batches : BatchLists,
     track : TrackChoices]

(***************************************************************************)
(* Account loader                                                          *)
(***************************************************************************)
\* Map.set on an insertion-ordered map kept as a sequence of <<key, value>>
RECURSIVE MapSet(_, _, _)
MapSet(m, k, v) ==
    IF m = <<>> THEN <<<<k, v>>>>
    ELSE IF m[1][1] = k THEN <<<<k, v>>>> \o Tail(m)
    ELSE <<m[1]>> \o MapSet(Tail(m), k, v)

\* strict fetchAccounts: one batched call, every account must exist
RECURSIVE fetchAccountsStrict(_, _)
fetchAccountsStrict(rpc, pubkeys) ==
    IF pubkeys = <<>> THEN <<>>
    ELSE LET n == Len(pubkeys)
         IN MapSet(fetchAccountsStrict(rpc, SubSeq(pubkeys, 1, n - 1)),
                   pubkeys[n], Val(rpc[pubkeys[n]]))
StrictFetchThrows(rpc, pubkeys) == \E k \in 1..Len(pubkeys) : IsNull(rpc[pubkeys[k]])

IsUpgradeableProgram(account) ==
    account.executable /\ account.owner = BPF_LOADER_UPGRADEABLE_ID

\* strict fetchAllAccounts: ProgramData of every upgradeable program is added
RECURSIVE fetchAllStrict(_, _)
fetchAllStrict(rpc, accounts) ==
    IF accounts = <<>> THEN <<>>
    ELSE LET n == Len(accounts)
             addr == accounts[n][1]
             account == accounts[n][2]
             sofar == fetchAllStrict(rpc, SubSeq(accounts, 1, n - 1))
             withPd == IF IsUpgradeableProgram(account)
                       THEN MapSet(sofar, ProgramDataOf(addr), Val(rpc[ProgramDataOf(addr)]))
                       ELSE sofar
         IN MapSet(withPd, addr, account)
ProgramDataThrows(rpc, accounts) ==
    \E k \in 1..Len(accounts) :
        IsUpgradeableProgram(accounts[k][2]) /\ IsNull(rpc[ProgramDataOf(accounts[k][1])])

\* lenient fetchAccounts (Promise.allSettled): failed fetches are skipped
RECURSIVE fetchAccountsLenient(_, _)
fetchAccountsLenient(rpc, pubkeys) ==
    IF pubkeys = <<>> THEN <<>>
    ELSE LET n == Len(pubkeys)
             sofar == fetchAccountsLenient(rpc, SubSeq(pubkeys, 1, n - 1))
         IN IF IsVal(rpc[pubkeys[n]]) THEN MapSet(sofar, pubkeys[n], Val(rpc[pubkeys[n]]))
            ELSE sofar

(***************************************************************************)
(* Sandbox (LiteSVM) as the engine drives it                               *)
(***************************************************************************)
setAccount(table, addr, account) == [table EXCEPT ![addr] = Some(account)]

\* svm.airdrop: credits the account, creating a system account when absent
airdrop(table, addr, amount) ==
    IF IsVal(table[addr])
    THEN [table EXCEPT ![addr] = Some([Val(table[addr]) EXCEPT !.lamports = @ + amount])]
    ELSE [table EXCEPT ![addr] = Some(Account(amount, <<>>, SYSTEM_PROGRAM, FALSE))]

\* can the instruction run on this table, and what it leaves behind
CanRun(table, payer, ix) ==
    CASE ix = "transfer" -> IsVal(table[payer]) /\ Val(table[payer]).lamports >= 1
      [] ix = "write"    -> IsVal(table["a1"])
      [] ix = "close"    -> IsVal(table["a1"])
RunIx(table, payer, ix) ==
    CASE ix = "transfer" ->
            airdrop([table EXCEPT ![payer] = Some([Val(table[payer]) EXCEPT !.lamports = @ - 1])],
                    "a2", 1)
      [] ix = "write" ->
            [table EXCEPT !["a1"] = Some([Val(table["a1"]) EXCEPT
                                          !.data = IF @ = <<1>> THEN <<0>> ELSE <<1>>])]
      [] ix = "close" ->
            airdrop([table EXCEPT !["a1"] = JsNull], payer, Val(table["a1"]).lamports)
\* a batch is atomic: the table after all instructions, or null when one cannot run
RECURSIVE RunBatch(_, _, _)
RunBatch(table, payer, batch) ==
    IF batch = <<>> THEN Some(table)
    ELSE IF CanRun(table, payer, batch[1])
         THEN RunBatch(RunIx(table, payer, batch[1]), payer, Tail(batch))
         ELSE JsNull

TransactionErrors == {"InstructionError"}
\* FailedTransactionMetadata: `err` is a method returning the TransactionError
FailedTransactionMetadata(e) == [err |-> <<"function", e>>]
\* JSON.stringify: undefined for a function or undefined, text otherwise
JSONstringify(v) ==
    IF v[1] = "function" \/ v[1] = "undefined" THEN JsUndefined ELSE Some(v[2])
\* the error text executeBatch records for a rejected submission
SandboxErrorText(eng, result) ==
    IF eng = "lite-sim"
    THEN JSONstringify(Some(result.err[2]))     \* result.err() then JSON.stringify
    ELSE JSONstringify(result.err)              \* JSON.stringify(result.err)

\* snapshotAccounts: a copy of every tracked account the sandbox holds
snapshotAccountsMutFirstOnly(table, addresses) ==
    [a \in {x \in SeqToSet(addresses) : x = addresses[1] /\ IsVal(table[x])} |-> Val(table[a])]
snapshotAccounts(table, addresses) ==
    [a \in {x \in SeqToSet(addresses) : IsVal(table[x])} |-> Val(table[a])]


(***************************************************************************)
(* The developments that are not running stay at rest                      *)
(***************************************************************************)
MutIdle == mTracked = <<>> /\ mBefore = <<>> /\ mAfter = <<>> /\ mOut = JsNull
MerkleIdle ==
    /\ leaves = <<>> /\ mkOut = JsNull
    /\ proposal = JsNull /\ swap = <<0, 0>> /\ rootOut = JsNull /\ swapOut = JsNull
LeafIdle == lfA = JsNull /\ lfB = JsNull /\ lfOut = JsNull
McmIdle == config = JsNull /\ mpc = "idle" /\ loaded = JsNull /\ work = <<>>
FetchIdle == requested = <<>> /\ settled = JsNull /\ fpc = "idle" /\ fetched = JsNull
CliIdle == argv = <<>> /\ cpc = "idle" /\ cli = JsNull
SimIdle == mcfg = JsNull /\ spc = "idle" /\ msim = JsNull /\ mrun = JsNull

(***************************************************************************)
(* Simulation engine: runSimulation                                        *)
(***************************************************************************)
NoMap == <<>>

Init ==
    /\ mode = "engine"
    /\ engine \in {"lite-sim", "litesim"}
    /\ sim \in Simulations
    /\ net \in NetChoices
    /\ pc = "load"
    /\ svm = [a \in Addr |-> JsNull]
    /\ svmSlot = 0
    /\ svmUnixTs = 0
    /\ loadQueue = <<>>
    /\ ovIdx = 0
    /\ stageLog = <<>>
    /\ i = 0
    /\ payerCfg = JsNull
    /\ tracked = <<>>
    /\ beforeState = NoMap
    /\ preSubmit = JsNull
    /\ batchResults = <<>>
    /\ submitLog = <<>>
    /\ batchStart = JsNull
    /\ mTracked = <<>> /\ mBefore = NoMap /\ mAfter = NoMap /\ mOut = JsNull
    /\ MerkleIdle /\ LeafIdle /\ McmIdle /\ FetchIdle /\ CliIdle /\ SimIdle

Others == <<mode, mutVars, mkVars, leafVars, mcmVars, fetchVars, cliVars, simVars>>
Static == <<engine, sim, net>>

\* the order of the stages of runSimulation
StageAfterMutOverrideFirst(stage) ==
    CASE stage = "load" -> "override"
      [] stage = "override" -> "setLoaded"
      [] stage = "setLoaded" -> "clock"
      [] stage = "clock" -> "loop"
StageAfter(stage) ==
    CASE stage = "load" -> "setLoaded"
      [] stage = "setLoaded" -> "override"
      [] stage = "override" -> "clock"
      [] stage = "clock" -> "loop"

\* loadAccounts, first half: fetchAllAccounts resolves or rejects
accountMap(eng, rpc, addresses) ==
    IF eng = "lite-sim"
    THEN fetchAllStrict(rpc, fetchAccountsStrict(rpc, addresses))
    ELSE fetchAccountsLenient(rpc, addresses)
FetchRejects(eng, rpc, addresses) ==
    IF eng # "lite-sim" THEN FALSE
    ELSE IF StrictFetchThrows(rpc, addresses) THEN TRUE
    ELSE ProgramDataThrows(rpc, fetchAccountsStrict(rpc, addresses))

FetchAll ==
    /\ pc = "load"
    /\ ~FetchRejects(engine, net, sim.accountsToLoad)
    /\ loadQueue' = accountMap(engine, net, sim.accountsToLoad)
    /\ pc' = StageAfter("load")
    /\ UNCHANGED <<Static, batchStart, svm, svmSlot, svmUnixTs, ovIdx, stageLog, i, payerCfg, tracked,
                   beforeState, preSubmit, batchResults, submitLog, Others>>

\* runSimulation rejects: nothing after `await loadAccounts` runs
FetchFailsMutCarriesOn ==
    /\ pc = "load"
    /\ FetchRejects(engine, net, sim.accountsToLoad)
    /\ loadQueue' = fetchAccountsLenient(net, sim.accountsToLoad)
    /\ pc' = StageAfter("load")
    /\ UNCHANGED <<Static, batchStart, svm, svmSlot, svmUnixTs, ovIdx, stageLog, i, payerCfg, tracked,
                   beforeState, preSubmit, batchResults, submitLog, Others>>
FetchFails ==
    /\ pc = "load"
    /\ FetchRejects(engine, net, sim.accountsToLoad)
    /\ pc' = "loadRejected"
    /\ UNCHANGED <<Static, batchStart, svm, svmSlot, svmUnixTs, loadQueue, ovIdx, stageLog, i, payerCfg,
                   tracked, beforeState, preSubmit, batchResults, submitLog, Others>>

\* loadAccounts, second half: one setAccount per entry of accountMap
LoadOne ==
    /\ pc = "setLoaded"
    /\ loadQueue # <<>>
    /\ svm' = setAccount(svm, loadQueue[1][1], loadQueue[1][2])
    /\ stageLog' = Append(stageLog, <<"load", loadQueue[1][1]>>)
    /\ loadQueue' = Tail(loadQueue)
    /\ UNCHANGED <<Static, batchStart, pc, svmSlot, svmUnixTs, ovIdx, i, payerCfg, tracked,
                   beforeState, preSubmit, batchResults, submitLog, Others>>

LoadDone ==
    /\ pc = "setLoaded"
    /\ loadQueue = <<>>
    /\ pc' = StageAfter("setLoaded")
    /\ UNCHANGED <<Static, batchStart, svm, svmSlot, svmUnixTs, loadQueue, ovIdx, stageLog, i, payerCfg,
                   tracked, beforeState, preSubmit, batchResults, submitLog, Others>>

\* applyAccountOverrides: one setAccount per override, in list order
ApplyOverride ==
    /\ pc = "override"
    /\ ovIdx < Len(sim.accountOverrides)
    /\ svm' = setAccount(svm, sim.accountOverrides[ovIdx + 1][1], sim.accountOverrides[ovIdx + 1][2])
    /\ stageLog' = Append(stageLog, <<"override", sim.accountOverrides[ovIdx + 1][1]>>)
    /\ ovIdx' = ovIdx + 1
    /\ UNCHANGED <<Static, batchStart, pc, svmSlot, svmUnixTs, loadQueue, i, payerCfg, tracked,
                   beforeState, preSubmit, batchResults, submitLog, Others>>

OverridesDone ==
    /\ pc = "override"
    /\ ovIdx = Len(sim.accountOverrides)
    /\ pc' = StageAfter("override")
    /\ UNCHANGED <<Static, batchStart, svm, svmSlot, svmUnixTs, loadQueue, ovIdx, stageLog, i, payerCfg,
                   tracked, beforeState, preSubmit, batchResults, submitLog, Others>>

\* setClockTimestamp: svm.warpToSlot(timestamp) when a timestamp is given
SetClockTimestamp ==
    /\ pc = "clock"
    /\ IF IsNull(sim.clockTimestamp)
       THEN UNCHANGED <<svmSlot, stageLog>>
       ELSE /\ svmSlot' = Val(sim.clockTimestamp)
            /\ stageLog' = Append(stageLog, <<"clock", "-">>)
    /\ pc' = StageAfter("clock")
    /\ UNCHANGED <<Static, batchStart, svm, svmUnixTs, loadQueue, ovIdx, i, payerCfg, tracked,
                   beforeState, preSubmit, batchResults, submitLog, Others>>


(***************************************************************************)
(* Simulation engine: executeBatch                                         *)
(***************************************************************************)
BatchResult(index, success, error, mutations) ==
    [index |-> index, success |-> success, error |-> error, mutations |-> mutations]

\* the amount executeBatch airdrops to the payer, or undefined for none
AirdropFor(eng, simulation) ==
    IF eng = "lite-sim" THEN simulation.airdropAmount ELSE Some(AIRDROP_AMOUNT)

\* simulation.payer(i) and simulation.accountsToTrack(i), evaluated before the try
BeginBatch ==
    /\ pc = "loop"
    /\ i < Len(sim.batches)
    /\ payerCfg' = Some([address |-> sim.payer, airdropAmount |-> AirdropFor(engine, sim)])
    /\ tracked' = sim.track[i]
    /\ beforeState' = NoMap
    /\ preSubmit' = JsNull
    /\ batchStart' = Some(svm)
    /\ pc' = "airdrop"
    /\ UNCHANGED <<Static, svm, svmSlot, svmUnixTs, loadQueue, ovIdx, stageLog, i,
                   batchResults, submitLog, Others>>

\* simulation.payer(i) or simulation.accountsToTrack(i) throws: nothing catches it
CallbackThrows ==
    /\ pc = "loop"
    /\ i < Len(sim.batches)
    /\ pc' = "batchRejected"
    /\ UNCHANGED <<Static, batchStart, svm, svmSlot, svmUnixTs, loadQueue, ovIdx, stageLog, i, payerCfg,
                   tracked, beforeState, preSubmit, batchResults, submitLog, Others>>

Airdrop ==
    /\ pc = "airdrop"
    /\ IF IsVal(Val(payerCfg).airdropAmount)
       THEN svm' = airdrop(svm, Val(payerCfg).address, Val(Val(payerCfg).airdropAmount))
       ELSE UNCHANGED svm
    /\ pc' = "snapshot"
    /\ UNCHANGED <<Static, batchStart, svmSlot, svmUnixTs, loadQueue, ovIdx, stageLog, i, payerCfg, tracked,
                   beforeState, preSubmit, batchResults, submitLog, Others>>

SnapshotBefore ==
    /\ pc = "snapshot"
    /\ beforeState' = snapshotAccounts(svm, tracked)
    /\ pc' = "convert"
    /\ UNCHANGED <<Static, batchStart, svm, svmSlot, svmUnixTs, loadQueue, ovIdx, stageLog, i, payerCfg,
                   tracked, preSubmit, batchResults, submitLog, Others>>

\* Instruction -> TransactionInstruction, new Transaction, feePayer, add
Convert ==
    /\ pc = "convert"
    /\ pc' = "submit"
    /\ UNCHANGED <<Static, batchStart, svm, svmSlot, svmUnixTs, loadQueue, ovIdx, stageLog, i, payerCfg,
                   tracked, beforeState, preSubmit, batchResults, submitLog, Others>>

\* where the loop goes once batch i has its result
AfterResultMutAbort(result) == IF result.success THEN "loop" ELSE "done"
AfterResult(result) == "loop"

\* batchResults.push(result) and i++
PushResultMutPrepend(result) ==
    /\ batchResults' = <<result>> \o batchResults
    /\ i' = i + 1
    /\ pc' = AfterResult(result)
PushResult(result) ==
    /\ batchResults' = Append(batchResults, result)
    /\ i' = i + 1
    /\ pc' = AfterResult(result)

\* the BatchResult of a rejected submission
FailedResult(eng, index, result, before) ==
    BatchResult(index, FALSE, SandboxErrorText(eng, result), <<>>)

\* svm.sendTransaction returns FailedTransactionMetadata: the table is untouched
SubmitFailsMutKeepsFirst ==
    /\ pc = "submit"
    /\ sim.batches[i + 1] # <<>>
    /\ CanRun(svm, Val(payerCfg).address, sim.batches[i + 1][1])
    /\ svm' = RunIx(svm, Val(payerCfg).address, sim.batches[i + 1][1])
    /\ \E e \in TransactionErrors :
          PushResult(FailedResult(engine, i, FailedTransactionMetadata(e), beforeState))
    /\ preSubmit' = Some(svm)
    /\ submitLog' = Append(submitLog, i)
    /\ UNCHANGED <<Static, batchStart, svmSlot, svmUnixTs, loadQueue, ovIdx, stageLog, payerCfg,
                   tracked, beforeState, Others>>
SubmitFails ==
    /\ pc = "submit"
    /\ \E e \in TransactionErrors :
          PushResult(FailedResult(engine, i, FailedTransactionMetadata(e), beforeState))
    /\ preSubmit' = Some(svm)
    /\ submitLog' = Append(submitLog, i)
    /\ UNCHANGED <<Static, batchStart, svm, svmSlot, svmUnixTs, loadQueue, ovIdx, stageLog, payerCfg,
                   tracked, beforeState, Others>>

\* svm.sendTransaction returns TransactionMetadata: every instruction took effect
SubmitSucceeds ==
    /\ pc = "submit"
    /\ IsVal(RunBatch(svm, Val(payerCfg).address, sim.batches[i + 1]))
    /\ svm' = Val(RunBatch(svm, Val(payerCfg).address, sim.batches[i + 1]))
    /\ preSubmit' = Some(svm)
    /\ submitLog' = Append(submitLog, i)
    /\ pc' = "after"
    /\ UNCHANGED <<Static, batchStart, svmSlot, svmUnixTs, loadQueue, ovIdx, stageLog, i, payerCfg,
                   tracked, beforeState, batchResults, Others>>

\* afterState, computeMutations and the successful BatchResult
SnapshotAfter ==
    /\ pc = "after"
    /\ PushResult(BatchResult(i, TRUE, JsNull,
                              computeMutations(tracked, beforeState, snapshotAccounts(svm, tracked))))
    /\ UNCHANGED <<Static, batchStart, svm, svmSlot, svmUnixTs, loadQueue, ovIdx, stageLog, payerCfg,
                   tracked, beforeState, preSubmit, submitLog, Others>>

\* anything inside the try block throws: the catch clause builds the result
InTry(p, cfg) ==
    \/ p \in {"snapshot", "convert", "submit", "after"}
    \/ p = "airdrop" /\ IsVal(Val(cfg).airdropAmount)
CaughtError ==
    /\ InTry(pc, payerCfg)
    /\ PushResult(BatchResult(i, FALSE, Some("Error.message"), <<>>))
    /\ UNCHANGED <<Static, batchStart, svm, svmSlot, svmUnixTs, loadQueue, ovIdx, stageLog, payerCfg,
                   tracked, beforeState, preSubmit, submitLog, Others>>

\* return { batchResults, loadedAccounts, accountOverrides }
Return ==
    /\ pc = "loop"
    /\ i >= Len(sim.batches)
    /\ pc' = "done"
    /\ UNCHANGED <<Static, batchStart, svm, svmSlot, svmUnixTs, loadQueue, ovIdx, stageLog, i, payerCfg,
                   tracked, beforeState, preSubmit, batchResults, submitLog, Others>>

Next ==
    \/ FetchAll \/ FetchFails \/ LoadOne \/ LoadDone
    \/ ApplyOverride \/ OverridesDone \/ SetClockTimestamp
    \/ BeginBatch \/ CallbackThrows \/ Airdrop \/ SnapshotBefore \/ Convert
    \/ SubmitFails \/ SubmitSucceeds \/ SnapshotAfter \/ CaughtError \/ Return

Spec == Init /\ [][Next]_vars

TypeOK ==
    /\ pc \in {"load", "setLoaded", "override", "clock", "loop", "airdrop", "snapshot",
               "convert", "submit", "after", "done", "loadRejected", "batchRejected"}
    /\ i \in 0..MaxBatches
    /\ Len(batchResults) <= MaxBatches


(***************************************************************************)
(* Mutation tracker on its own: computeMutations over arbitrary snapshots  *)
(***************************************************************************)
IdleSimulation ==
    [accountsToLoad |-> <<>>, accountOverrides |-> <<>>, clockTimestamp |-> JsNull,
     airdropAmount |-> JsUndefined, payer |-> "payer", batches |-> <<>>,
     track |-> [t \in 0..(MaxBatches + 1) |-> <<>>]]
EngineIdle ==
    /\ engine = "lite-sim" /\ sim = IdleSimulation /\ net = NetWithout({})
    /\ pc = "idle" /\ svm = [a \in Addr |-> JsNull] /\ svmSlot = 0 /\ svmUnixTs = 0
    /\ loadQueue = <<>> /\ ovIdx = 0 /\ stageLog = <<>> /\ i = 0 /\ payerCfg = JsNull
    /\ tracked = <<>> /\ beforeState = NoMap /\ preSubmit = JsNull
    /\ batchResults = <<>> /\ submitLog = <<>> /\ batchStart = JsNull

DataChoices == {<<>>, <<0>>, <<1>>, <<0, 0>>}
SnapshotAccounts1 ==
    {Account(l, d, o, FALSE) : l \in {0, 1}, d \in DataChoices, o \in {"o1", "o2"}}
        \cup {Account(1, <<0>>, "o1", TRUE)}
SnapshotAccounts2 == {Account(0, <<>>, "o1", FALSE), Account(0, <<>>, "o2", FALSE)}
\* Map<Address, account>: a1 ranges widely, a2 over a few accounts, a3 is never held
SnapshotMaps ==
    {[a \in {} |-> 0]}
        \cup {[a \in {"a1"} |-> x] : x \in SnapshotAccounts1}
        \cup {[a \in {"a2"} |-> y] : y \in SnapshotAccounts2}
        \cup {[a \in {"a1", "a2"} |-> IF a = "a1" THEN xy[1] ELSE xy[2]] :
                  xy \in SnapshotAccounts1 \X SnapshotAccounts2}
TrackedChoices == {<<>>, <<"a1">>, <<"a2", "a1">>, <<"a1", "a3", "a2">>}

InitMut ==
    /\ mode = "mutation"
    /\ EngineIdle
    /\ mTracked \in TrackedChoices
    /\ mBefore \in SnapshotMaps
    /\ mAfter \in SnapshotMaps
    /\ mOut = JsNull
    /\ MerkleIdle /\ LeafIdle /\ McmIdle /\ FetchIdle /\ CliIdle /\ SimIdle

ComputeMutations ==
    /\ mode = "mutation"
    /\ mOut = JsNull
    /\ mOut' = Some([mutations |-> computeMutations(mTracked, mBefore, mAfter),
                      each |-> [a \in SeqToSet(mTracked) |->
                                   computeMutation(a, MapGet(mBefore, a), MapGet(mAfter, a))]])
    /\ UNCHANGED <<mode, engineVars, mTracked, mBefore, mAfter, mkVars, leafVars,
                   mcmVars, fetchVars, cliVars, simVars>>

NextMut == ComputeMutations
SpecMut == InitMut /\ [][NextMut]_vars


(***************************************************************************)
(* Properties of the mutation tracker (checked under SpecMut)              *)
(***************************************************************************)
\* what can be observed of an account: nothing when absent
Observable(acc) ==
    IF IsVal(acc) THEN <<Val(acc).owner, Val(acc).lamports, Val(acc).data>> ELSE <<>>
EntriesFor(muts, a) == {k \in 1..Len(muts) : muts[k].pubkey = a}

\* C7: computeMutations emits an entry for a tracked address exactly when its
\* existence, owner, lamports or data differ between the two snapshots; an
\* address that is identical on both sides (absent on both included) has no
\* entry, no address has two entries and no untracked address has one.
C7_EntryIffChanged ==
    IsVal(mOut) =>
        /\ \A a \in SeqToSet(mTracked) :
              /\ Cardinality(EntriesFor(Val(mOut).mutations, a)) <= 1
              /\ (EntriesFor(Val(mOut).mutations, a) # {})
                     <=> (Observable(MapGet(mBefore, a)) # Observable(MapGet(mAfter, a)))
        /\ \A k \in 1..Len(Val(mOut).mutations) :
              Val(mOut).mutations[k].pubkey \in SeqToSet(mTracked)

C7_Witness ==
    /\ IsVal(mOut)
    /\ mTracked = <<"a1", "a3", "a2">>
    /\ "a1" \in DOMAIN mBefore /\ "a1" \in DOMAIN mAfter
    /\ mBefore["a1"].owner # mAfter["a1"].owner
    /\ mBefore["a1"].lamports = mAfter["a1"].lamports
    /\ mBefore["a1"].data = mAfter["a1"].data
    /\ "a2" \in DOMAIN mBefore /\ "a2" \in DOMAIN mAfter /\ mBefore["a2"] = mAfter["a2"]
    /\ Len(Val(mOut).mutations) = 1
    /\ Val(mOut).mutations[1].pubkey = "a1"

\* C8: dataChanged is true when the account exists on exactly one side, even
\* with zero-length data; when it exists on both sides it is true exactly when
\* the data differ in length or in some byte; on neither side it is false.
C8_DataChanged ==
    IsVal(mOut) =>
        \A a \in SeqToSet(mTracked) :
            LET m == Val(mOut).each[a]
                b == MapGet(mBefore, a)
                f == MapGet(mAfter, a)
            IN /\ (IsVal(b) # IsVal(f)) => m.dataChanged
               /\ (IsVal(b) /\ IsVal(f)) => (m.dataChanged <=> Val(b).data # Val(f).data)
               /\ (IsNull(b) /\ IsNull(f)) => ~m.dataChanged

C8_Witness ==
    /\ IsVal(mOut)
    /\ mTracked = <<"a1", "a3", "a2">>
    /\ "a2" \notin DOMAIN mBefore /\ "a2" \in DOMAIN mAfter /\ mAfter["a2"].data = <<>>
    /\ Val(mOut).each["a2"].dataChanged
    /\ ~Val(mOut).each["a3"].dataChanged
    /\ "a1" \in DOMAIN mBefore /\ "a1" \in DOMAIN mAfter
    /\ mBefore["a1"].data = <<0>> /\ mAfter["a1"].data = <<0, 0>>
    /\ Val(mOut).each["a1"].dataChanged

\* C9: dataBefore and dataAfter are null when dataChanged is false; when it is
\* true each is the full data of its side if the account existed there and
\* null otherwise; owner and lamports of a side are null exactly when the
\* account did not exist on that side.
SideOk(changed, acc, existed, owner, lamps, data) ==
    /\ existed = IsVal(acc)
    /\ IsNull(owner) <=> ~existed
    /\ IsNull(lamps) <=> ~existed
    /\ existed => (owner = Some(Val(acc).owner) /\ lamps = Some(Val(acc).lamports))
    /\ ~changed => data = JsNull
    /\ changed => data = (IF existed THEN Some(Val(acc).data) ELSE JsNull)
C9_NullFields ==
    IsVal(mOut) =>
        \A a \in SeqToSet(mTracked) :
            LET m == Val(mOut).each[a]
            IN /\ SideOk(m.dataChanged, MapGet(mBefore, a), m.existedBefore,
                         m.ownerBefore, m.lamportsBefore, m.dataBefore)
               /\ SideOk(m.dataChanged, MapGet(mAfter, a), m.existedAfter,
                         m.ownerAfter, m.lamportsAfter, m.dataAfter)

C9_Witness ==
    /\ IsVal(mOut)
    /\ mTracked = <<"a2", "a1">>
    /\ "a1" \in DOMAIN mBefore /\ "a1" \in DOMAIN mAfter
    /\ mBefore["a1"].lamports = 0 /\ mAfter["a1"].lamports = 1
    /\ mBefore["a1"].data = mAfter["a1"].data /\ mBefore["a1"].data # <<>>
    /\ Val(mOut).each["a1"].dataBefore = JsNull
    /\ Val(mOut).each["a1"].lamportsBefore = Some(0)
    /\ "a2" \in DOMAIN mBefore /\ "a2" \notin DOMAIN mAfter
    /\ Val(mOut).each["a2"].dataBefore = Some(mBefore["a2"].data)
    /\ Val(mOut).each["a2"].dataAfter = JsNull


(***************************************************************************)
(* Merkle builder                                                          *)
(***************************************************************************)
MaxLeaves == 5

\* keccak_256 of a byte string, taken as collision-free: the digest is modelled
\* by the string it was computed from, led by its length so that the
\* concatenation of two digests can be split in one way only
keccak_256(bytes) == <<Len(bytes)>> \o bytes

LeafHashes == {keccak_256(<<b>>) : b \in {1, 2, 3}}
LeafLists == UNION {[1..n -> LeafHashes] : n \in 0..MaxLeaves}

\* Buffer.compare: bytewise lexicographic order, -1, 0 or 1; a proper prefix
\* sorts first
BufferCompare(a, b) ==
    LET n == IF Len(a) < Len(b) THEN Len(a) ELSE Len(b)
    IN IF \E k \in 1..n : a[k] # b[k]
       THEN LET first == CHOOSE k \in 1..n :
                             a[k] # b[k] /\ \A m \in 1..(k - 1) : a[m] = b[m]
            IN IF a[first] < b[first] THEN -1 ELSE 1
       ELSE IF Len(a) < Len(b) THEN -1
       ELSE IF Len(a) > Len(b) THEN 1
       ELSE 0

\* the parent of a pair: the two hashes sorted by Buffer.compare, concatenated,
\* then hashed
HashPairMutUnsorted(left, right) == keccak_256(left \o right)
HashPair(left, right) ==
    IF BufferCompare(left, right) < 0 THEN keccak_256(left \o right)
    ELSE keccak_256(right \o left)

\* one pass of the inner for loop: pairs by position, the odd one out promoted
RECURSIVE NextLevelMutSelfPair(_)
NextLevelMutSelfPair(currentLevel) ==
    IF currentLevel = <<>> THEN <<>>
    ELSE IF Len(currentLevel) = 1 THEN <<HashPair(currentLevel[1], currentLevel[1])>>
    ELSE <<HashPair(currentLevel[1], currentLevel[2])>>
             \o NextLevelMutSelfPair(SubSeq(currentLevel, 3, Len(currentLevel)))
RECURSIVE NextLevel(_)
NextLevel(currentLevel) ==
    IF currentLevel = <<>> THEN <<>>
    ELSE IF Len(currentLevel) = 1 THEN <<currentLevel[1]>>
    ELSE <<HashPair(currentLevel[1], currentLevel[2])>>
             \o NextLevel(SubSeq(currentLevel, 3, Len(currentLevel)))

\* the while loop: tree[0] is the leaves, the last level holds the root alone
RECURSIVE BuildLevels(_)
BuildLevels(currentLevel) ==
    IF Len(currentLevel) > 1
    THEN <<currentLevel>> \o BuildLevels(NextLevel(currentLevel))
    ELSE <<currentLevel>>

\* the proof entry of one level for the node at 0-based `index`
SiblingMutDuplicate(levelNodes, index) ==
    IF index % 2 = 1 THEN <<levelNodes[index]>>
    ELSE IF index + 1 < Len(levelNodes) THEN <<levelNodes[index + 2]>>
    ELSE <<levelNodes[index + 1]>>
Sibling(levelNodes, index) ==
    IF index % 2 = 1 THEN <<levelNodes[index]>>
    ELSE IF index + 1 < Len(levelNodes) THEN <<levelNodes[index + 2]>>
    ELSE <<>>

\* the proof of one leaf: levels 0 .. tree.length - 2, index halved each level
RECURSIVE ProofFrom(_, _, _)
ProofFrom(tree, level, index) ==
    IF level >= Len(tree) - 1 THEN <<>>
    ELSE Sibling(tree[level + 1], index) \o ProofFrom(tree, level + 1, index \div 2)

buildMerkleTree(lvs) ==
    LET tree == BuildLevels(lvs)
    IN [root |-> tree[Len(tree)][1],
        proofs |-> [leafIndex \in 1..Len(lvs) |-> ProofFrom(tree, 0, leafIndex - 1)],
        tree |-> tree]

\* throw new Error('Cannot build merkle tree with no leaves')
EmptyTreeError == <<"throw", "Cannot build merkle tree with no leaves">>


(***************************************************************************)
(* Leaf encodings: hashMetadataLeaf and hashOperationLeaf                  *)
(***************************************************************************)
\* a bigint v is held as its quotient and remainder by 2^64: v = q * 2^64 + r
Big(q, r) == [q |-> q, r |-> r]
\* BigInt(n) of a non-negative number below 2^64
BigInt(n) == Big(0, n)
\* bigint + BigInt(n), for remainders far below 2^64 (no carry)
BigAdd(v, n) == Big(v.q, v.r + n)

Zeros(n) == [k \in 1..n |-> 0]

\* the `n` low-order bytes of v, least significant first
RECURSIVE LittleEndian(_, _)
LittleEndian(v, n) == IF n = 0 THEN <<>> ELSE <<v % 256>> \o LittleEndian(v \div 256, n - 1)

\* new Uint8Array(32) with view.setBigUint64(24, value, true): setBigUint64
\* stores value modulo 2^64, little-endian, in bytes 24..31
padU64To32Bytes(value) == Zeros(24) \o LittleEndian(value.r, 8)

\* new Uint8Array(32) with bytes[31] = value ? 1 : 0
padBoolTo32Bytes(value) == Zeros(31) \o <<IF value THEN 1 ELSE 0>>

\* addressEncoder.encode: the 32 bytes of an address; addresses are numbered
\* 0..255 here and the number is the last byte
addressEncoder(a) == Zeros(31) \o <<a>>

\* new TextEncoder().encode of the two tags
MetadataTag ==
    <<77, 65, 78, 89, 95, 67, 72, 65, 73, 78, 95, 77, 85, 76, 84, 73, 95,
      83, 73, 71, 95, 68, 79, 77, 65, 73, 78, 95, 83, 69, 80, 65, 82, 65,
      84, 79, 82, 95, 77, 69, 84, 65, 68, 65, 84, 65, 95, 83, 79, 76, 65,
      78, 65>>
OpTag ==
    <<77, 65, 78, 89, 95, 67, 72, 65, 73, 78, 95, 77, 85, 76, 84, 73, 95,
      83, 73, 71, 95, 68, 79, 77, 65, 73, 78, 95, 83, 69, 80, 65, 82, 65,
      84, 79, 82, 95, 79, 80, 95, 83, 79, 76, 65, 78, 65>>
DOMAIN_SEPARATOR_METADATA == keccak_256(MetadataTag)
DOMAIN_SEPARATOR_OP == keccak_256(OpTag)

\* the byte string hashMetadataLeaf hashes: `concatenated`
MetadataPreimage(p) ==
    DOMAIN_SEPARATOR_METADATA
        \o padU64To32Bytes(p.rootMetadata.chainId)
        \o addressEncoder(p.rootMetadata.multisig)
        \o padU64To32Bytes(p.rootMetadata.preOpCount)
        \o padU64To32Bytes(p.rootMetadata.postOpCount)
        \o padBoolTo32Bytes(p.rootMetadata.overridePreviousRoot)
hashMetadataLeaf(p) == keccak_256(MetadataPreimage(p))

\* 33 bytes per account: the address, then the flags byte
\* (isSigner 0x02, isWritable 0x01)
Flags(acc) == (IF acc.isSigner THEN 2 ELSE 0) + (IF acc.isWritable THEN 1 ELSE 0)
RECURSIVE serializedAccounts(_)
serializedAccounts(accounts) ==
    IF accounts = <<>> THEN <<>>
    ELSE addressEncoder(accounts[1].pubkey) \o <<Flags(accounts[1])>>
             \o serializedAccounts(Tail(accounts))

\* the byte string hashOperationLeaf hashes: `concatenated`
OperationPreimage(p, instruction, nonce) ==
    DOMAIN_SEPARATOR_OP
        \o padU64To32Bytes(p.rootMetadata.chainId)
        \o addressEncoder(p.rootMetadata.multisig)
        \o padU64To32Bytes(nonce)
        \o addressEncoder(instruction.programId)
        \o padU64To32Bytes(BigInt(Len(instruction.data)))
        \o instruction.data
        \o padU64To32Bytes(BigInt(Len(instruction.accounts)))
        \o serializedAccounts(instruction.accounts)
hashOperationLeaf(p, instruction, nonce) ==
    keccak_256(OperationPreimage(p, instruction, nonce))


(***************************************************************************)
(* computeMerkleRoot                                                       *)
(***************************************************************************)
\* proposal.instructions.map((ix, i) => hashOperationLeaf(proposal, ix,
\*     preOpCount + BigInt(i)))
OperationLeavesMutNoNonce(p) ==
    [k \in 1..Len(p.instructions) |->
        hashOperationLeaf(p, p.instructions[k], p.rootMetadata.preOpCount)]
OperationLeaves(p) ==
    [k \in 1..Len(p.instructions) |->
        hashOperationLeaf(p, p.instructions[k], BigAdd(p.rootMetadata.preOpCount, k - 1))]

\* [metadataLeaf, ...operationLeaves]
AllLeavesMutNoMetadata(p) == OperationLeaves(p)
AllLeaves(p) == <<hashMetadataLeaf(p)>> \o OperationLeaves(p)

\* proofs.slice(1)
OperationProofsMutKeepAll(proofs) == proofs
OperationProofs(proofs) == [k \in 1..(Len(proofs) - 1) |-> proofs[k + 1]]

computeMerkleRoot(p) ==
    LET built == buildMerkleTree(AllLeaves(p))
    IN [proposal |-> p, root |-> built.root,
        operationProofs |-> OperationProofs(built.proofs)]

MaxOps == 4
Instruction(programId, data, accounts) ==
    [programId |-> programId, data |-> data, accounts |-> accounts]
AccountMeta(pubkey, isSigner, isWritable) ==
    [pubkey |-> pubkey, isSigner |-> isSigner, isWritable |-> isWritable]
Instructions ==
    {Instruction(1, <<>>, <<>>),
     Instruction(1, <<7>>, <<AccountMeta(2, FALSE, TRUE)>>),
     Instruction(2, <<7, 0>>, <<AccountMeta(2, TRUE, FALSE), AccountMeta(3, FALSE, FALSE)>>)}
InstructionLists == UNION {[1..n -> Instructions] : n \in 0..MaxOps}
Proposal(instructions, preOpCount) ==
    [multisigId |-> Zeros(32), validUntil |-> 7200, instructions |-> instructions,
     rootMetadata |-> [chainId |-> BigInt(1), multisig |-> 1,
                       preOpCount |-> preOpCount,
                       postOpCount |-> BigAdd(preOpCount, Len(instructions)),
                       overridePreviousRoot |-> FALSE]]
Proposals == {Proposal(ixs, BigInt(pre)) : ixs \in InstructionLists, pre \in {0, 6}}
SwapChoices(n) ==
    IF n < 2 THEN {<<0, 0>>} ELSE {jk \in (1..n) \X (1..n) : jk[1] < jk[2]}

\* the proposal with the instructions at positions j and k exchanged
Exchange(p, j, k) ==
    [p EXCEPT !.instructions =
        [n \in 1..Len(p.instructions) |->
            IF n = j THEN p.instructions[k]
            ELSE IF n = k THEN p.instructions[j]
            ELSE p.instructions[n]]]

InitMerkle ==
    /\ mode = "merkle"
    /\ EngineIdle /\ MutIdle /\ LeafIdle /\ McmIdle /\ FetchIdle /\ CliIdle /\ SimIdle
    /\ \/ /\ leaves \in LeafLists
          /\ proposal = JsNull
          /\ swap = <<0, 0>>
       \/ /\ leaves = <<>>
          /\ \E p \in Proposals :
                /\ proposal = Some(p)
                /\ swap \in SwapChoices(Len(p.instructions))
    /\ mkOut = JsNull
    /\ rootOut = JsNull
    /\ swapOut = JsNull

BuildTree ==
    /\ mode = "merkle"
    /\ proposal = JsNull
    /\ mkOut = JsNull
    /\ Len(leaves) # 0
    /\ mkOut' = Some(buildMerkleTree(leaves))
    /\ UNCHANGED <<mode, engineVars, mutVars, leaves, proposal, swap, rootOut, swapOut,
                   leafVars, mcmVars, fetchVars, cliVars, simVars>>

BuildTreeThrows ==
    /\ mode = "merkle"
    /\ proposal = JsNull
    /\ mkOut = JsNull
    /\ Len(leaves) = 0
    /\ mkOut' = EmptyTreeError
    /\ UNCHANGED <<mode, engineVars, mutVars, leaves, proposal, swap, rootOut, swapOut,
                   leafVars, mcmVars, fetchVars, cliVars, simVars>>

\* computeMerkleRoot(proposal): `leaves` and `mkOut` keep what it handed to
\* buildMerkleTree and what came back
ComputeMerkleRoot ==
    /\ mode = "merkle"
    /\ IsVal(proposal)
    /\ rootOut = JsNull
    /\ leaves' = AllLeaves(Val(proposal))
    /\ IF Len(AllLeaves(Val(proposal))) = 0
       THEN mkOut' = EmptyTreeError /\ rootOut' = EmptyTreeError
       ELSE /\ mkOut' = Some(buildMerkleTree(AllLeaves(Val(proposal))))
            /\ rootOut' = Some(computeMerkleRoot(Val(proposal)))
    /\ UNCHANGED <<mode, engineVars, mutVars, proposal, swap, swapOut,
                   leafVars, mcmVars, fetchVars, cliVars, simVars>>

\* computeMerkleRoot of the same proposal with two instructions exchanged
ComputeExchanged ==
    /\ mode = "merkle"
    /\ IsVal(rootOut)
    /\ swap # <<0, 0>>
    /\ swapOut = JsNull
    /\ swapOut' = Some(computeMerkleRoot(Exchange(Val(proposal), swap[1], swap[2])))
    /\ UNCHANGED <<mode, engineVars, mutVars, leaves, mkOut, proposal, swap, rootOut,
                   leafVars, mcmVars, fetchVars, cliVars, simVars>>

NextMerkle == BuildTree \/ BuildTreeThrows \/ ComputeMerkleRoot \/ ComputeExchanged
SpecMerkle == InitMerkle /\ [][NextMerkle]_vars

\* a verifier's replay of a proof: sorted-pair hashing from the leaf upwards
RECURSIVE FoldProof(_, _)
FoldProof(current, proof) ==
    IF proof = <<>> THEN current
    ELSE FoldProof(HashPair(current, proof[1]), Tail(proof))

\* C1: for every non-empty leaf sequence and every leaf index, folding the
\* leaf's proof over the leaf's hash with sorted-pair hashing gives the root.
C1_ProofReconstructsRoot ==
    IsVal(mkOut) =>
        \A k \in 1..Len(leaves) :
            FoldProof(leaves[k], Val(mkOut).proofs[k]) = Val(mkOut).root

\* an odd leaf count: the last leaf is promoted twice and still proves the root
C1_Witness ==
    /\ IsVal(mkOut)
    /\ Len(leaves) = 5
    /\ Len(Val(mkOut).proofs[5]) = 1
    /\ Len(Val(mkOut).proofs[1]) = 3
    /\ BufferCompare(leaves[1], leaves[2]) > 0
    /\ FoldProof(leaves[5], Val(mkOut).proofs[5]) = Val(mkOut).root

\* a verifier that puts every sibling on the other side
RECURSIVE FoldProofOtherSide(_, _)
FoldProofOtherSide(current, proof) ==
    IF proof = <<>> THEN current
    ELSE FoldProofOtherSide(HashPair(proof[1], current), Tail(proof))

\* the leaves with positions 2k and 2k+1 (0-based) exchanged
ExchangePair(lvs, k) ==
    [j \in 1..Len(lvs) |->
        IF j = 2 * k + 1 THEN lvs[2 * k + 2]
        ELSE IF j = 2 * k + 2 THEN lvs[2 * k + 1]
        ELSE lvs[j]]
\* the pairs of a level: k such that positions 2k and 2k+1 both exist
PairsOf(lvs) == {k \in 0..Len(lvs) : 2 * k + 2 <= Len(lvs)}
\* every node of the tree built
NodesOf(tree) == UNION {SeqToSet(tree[l]) : l \in 1..Len(tree)}

\* C26: the parent hash is symmetric in its two children, equal children
\* included; so the root is the same when the two leaves of a pair (positions
\* 2k and 2k+1) are exchanged, and a verifier recomputes the root from a proof
\* whichever side it puts each sibling on.
C26_ParentIsSymmetric ==
    (IsVal(mkOut) /\ proposal = JsNull) =>
        /\ \A a, b \in NodesOf(Val(mkOut).tree) : HashPair(a, b) = HashPair(b, a)
        /\ \A k \in PairsOf(leaves) :
              buildMerkleTree(ExchangePair(leaves, k)).root = Val(mkOut).root
        /\ \A k \in 1..Len(leaves) :
              /\ FoldProofOtherSide(leaves[k], Val(mkOut).proofs[k]) = Val(mkOut).root
              /\ FoldProofOtherSide(leaves[k], Val(mkOut).proofs[k])
                    = FoldProof(leaves[k], Val(mkOut).proofs[k])

\* four leaves, the first pair out of order and different, the second pair
\* equal: exchanging the first pair gives another leaf sequence and the same root
C26_Witness ==
    /\ IsVal(mkOut) /\ proposal = JsNull
    /\ Len(leaves) = 4
    /\ BufferCompare(leaves[1], leaves[2]) > 0
    /\ leaves[3] = leaves[4]
    /\ ExchangePair(leaves, 0) # leaves
    /\ buildMerkleTree(ExchangePair(leaves, 0)).root = Val(mkOut).root


(***************************************************************************)
(* Properties of computeMerkleRoot and of the tree's shape                 *)
(***************************************************************************)
Computed == IsVal(proposal) /\ IsVal(rootOut) /\ IsVal(mkOut)
OpCount == Len(Val(proposal).instructions)
LevelSizes(tree) == [l \in 1..Len(tree) |-> Len(tree[l])]
RECURSIVE Pow2(_)
Pow2(n) == IF n = 0 THEN 1 ELSE 2 * Pow2(n - 1)
\* every level is full: level l (0-based, from the leaves) of a tree of depth d
\* holds 2^(d - l) nodes
PerfectlyBalanced(tree) ==
    \A l \in 1..Len(tree) : Len(tree[l]) = Pow2(Len(tree) - l)

\* C11 as stated: for a proposal with 4 operations, computeMerkleRoot builds 5
\* leaves, the tree is perfectly balanced with depth 3, and each of the 4
\* operation proofs has exactly 3 sibling entries.
C11_FourOpsBalanced ==
    (Computed /\ OpCount = 4) =>
        /\ Len(leaves) = 5
        /\ PerfectlyBalanced(Val(mkOut).tree)
        /\ Len(Val(mkOut).tree) - 1 = 3
        /\ Len(Val(rootOut).operationProofs) = 4
        /\ \A k \in 1..4 : Len(Val(rootOut).operationProofs[k]) = 3

\* C11 amended: for a proposal with 4 operations, computeMerkleRoot builds 5
\* leaves and a tree of depth 3 whose levels hold 5, 3, 2 and 1 nodes (the fifth
\* leaf is promoted twice, so the tree is not balanced); the proofs of the first
\* three operations have 3 sibling entries and the proof of the fourth has 1.
C11_FourOpsShape ==
    (Computed /\ OpCount = 4) =>
        /\ Len(leaves) = 5
        /\ Len(Val(mkOut).tree) - 1 = 3
        /\ LevelSizes(Val(mkOut).tree) = <<5, 3, 2, 1>>
        /\ ~PerfectlyBalanced(Val(mkOut).tree)
        /\ Len(Val(rootOut).operationProofs) = 4
        /\ \A k \in 1..3 : Len(Val(rootOut).operationProofs[k]) = 3
        /\ Len(Val(rootOut).operationProofs[4]) = 1
        /\ Val(mkOut).tree[3][2] = leaves[5]

C11_Witness ==
    /\ Computed
    /\ OpCount = 4
    /\ Len(Val(rootOut).operationProofs[4]) = 1
    /\ Len(Val(rootOut).operationProofs[1]) = 3

\* the 0-based index, at level l (1 = the leaves), of the node on leaf k's path
PathIndex(k, l) == (k - 1) \div Pow2(l - 1)
HasSibling(tree, k, l) ==
    PathIndex(k, l) % 2 = 1 \/ PathIndex(k, l) + 1 < Len(tree[l])
SiblingOf(tree, k, l) ==
    IF PathIndex(k, l) % 2 = 1 THEN tree[l][PathIndex(k, l)]
    ELSE tree[l][PathIndex(k, l) + 2]
\* the levels below the root at which the node on leaf k's path had a sibling
SiblingLevels(tree, k) == {l \in 1..(Len(tree) - 1) : HasSibling(tree, k, l)}

\* C12: whenever a level has an odd number of nodes its last node appears
\* unchanged in the next level; a leaf's proof holds, in order, the siblings of
\* the levels at which its path had one and nothing for the levels at which its
\* node was promoted, so its length is the number of levels with a sibling; with
\* 3 leaves the third leaf's proof has exactly one entry.
C12_PromotedUnchanged ==
    IsVal(mkOut) =>
        LET tree == Val(mkOut).tree
            proofs == Val(mkOut).proofs
        IN /\ \A l \in 1..(Len(tree) - 1) :
                  Len(tree[l]) % 2 = 1 =>
                      tree[l + 1][Len(tree[l + 1])] = tree[l][Len(tree[l])]
           /\ \A k \in 1..Len(leaves) :
                  /\ Len(proofs[k]) = Cardinality(SiblingLevels(tree, k))
                  /\ \A l \in SiblingLevels(tree, k) :
                         proofs[k][Cardinality({m \in SiblingLevels(tree, k) : m <= l})]
                             = SiblingOf(tree, k, l)
           /\ Len(leaves) = 3 => Len(proofs[3]) = 1

C12_Witness ==
    /\ IsVal(mkOut)
    /\ proposal = JsNull
    /\ Len(leaves) = 3
    /\ Val(mkOut).tree[2] = <<HashPair(leaves[1], leaves[2]), leaves[3]>>
    /\ Val(mkOut).proofs[3] = <<HashPair(leaves[1], leaves[2])>>

\* C13: for a proposal with N operations computeMerkleRoot builds N+1 leaves,
\* the metadata leaf at index 0 and operation k's leaf (nonce preOpCount + k) at
\* index k+1, and returns N operation proofs, operationProofs[k] being the proof
\* of leaf k+1; with one operation and preOpCount = 6 there are 2 leaves and one
\* proof whose only entry is the metadata leaf hash.
C13_LeavesAndProofs ==
    Computed =>
        LET p == Val(proposal)
            out == Val(rootOut)
        IN /\ Len(leaves) = OpCount + 1
           /\ leaves[1] = hashMetadataLeaf(p)
           /\ \A k \in 1..OpCount :
                  leaves[k + 1] = hashOperationLeaf(p, p.instructions[k],
                                      BigAdd(p.rootMetadata.preOpCount, k - 1))
           /\ Len(out.operationProofs) = OpCount
           /\ \A k \in 1..OpCount :
                  /\ out.operationProofs[k] = Val(mkOut).proofs[k + 1]
                  /\ FoldProof(leaves[k + 1], out.operationProofs[k]) = out.root
           /\ (OpCount = 1 /\ p.rootMetadata.preOpCount = BigInt(6)) =>
                  /\ Len(leaves) = 2
                  /\ out.operationProofs = <<<<hashMetadataLeaf(p)>>>>

C13_Witness ==
    /\ Computed
    /\ OpCount = 1
    /\ Val(proposal).rootMetadata.preOpCount = BigInt(6)
    /\ Val(proposal).rootMetadata.postOpCount = BigInt(7)
    /\ Val(rootOut).operationProofs = <<<<leaves[1]>>>>

Exchanged == Computed /\ IsVal(swapOut)

\* C14 as stated: for every proposal, exchanging the positions of two
\* operations in the instruction list changes the root.
C14_ExchangeChangesRoot ==
    Exchanged => Val(swapOut).root # Val(rootOut).root

\* C14 amended: exchanging two operations that differ changes the root;
\* exchanging two identical operations gives the same proposal and the same root.
C14_ExchangeOfDifferentOps ==
    Exchanged =>
        LET ixs == Val(proposal).instructions
        IN (ixs[swap[1]] # ixs[swap[2]]) <=> (Val(swapOut).root # Val(rootOut).root)

\* two different operations that share a sorted pair of the tree are exchanged
C14_Witness ==
    /\ Exchanged
    /\ swap = <<2, 3>>
    /\ Val(proposal).instructions[2] # Val(proposal).instructions[3]
    /\ Val(swapOut).root # Val(rootOut).root

\* C18: buildMerkleTree given zero leaves fails with an error and gives neither
\* a root nor proofs; computeMerkleRoot never ends in that error, whatever the
\* proposal, a proposal with no instructions included.
C18_EmptyTreeError ==
    /\ (proposal = JsNull /\ Len(leaves) = 0 /\ mkOut # JsNull) => mkOut = EmptyTreeError
    /\ (proposal = JsNull /\ mkOut = EmptyTreeError) => Len(leaves) = 0
    /\ (IsVal(proposal) /\ rootOut # JsNull) =>
           /\ rootOut # EmptyTreeError
           /\ mkOut # EmptyTreeError
           /\ Len(leaves) >= 1

C18_Witness ==
    /\ IsVal(proposal)
    /\ OpCount = 0
    /\ IsVal(rootOut)
    /\ Val(rootOut).root = hashMetadataLeaf(Val(proposal))
    /\ Val(rootOut).operationProofs = <<>>


(***************************************************************************)
(* The leaf encodings on their own: two inputs that differ in one field    *)
(***************************************************************************)
\* bigint values: 0, 1, 256, and 2^64, which a JSON number can hold exactly
\* and validateProposal passes on unchanged (BigInt(json.rootMetadata.chainId))
BigChoices == {Big(0, 0), Big(0, 1), Big(0, 256), Big(1, 0)}
AddressChoices == {1, 2}
DataBytes == {<<>>, <<0>>, <<7>>, <<0, 0>>}
LeafInput(chainId, data, accounts) ==
    [rootMetadata |-> [chainId |-> chainId, multisig |-> 1,
                       preOpCount |-> Big(0, 0), postOpCount |-> Big(0, 1),
                       overridePreviousRoot |-> FALSE],
     instruction |-> Instruction(1, data, accounts),
     nonce |-> Big(0, 0)]
LeafInputs ==
    {LeafInput(c, d, a) :
        c \in {Big(0, 0), Big(0, 1)},
        d \in {<<>>, <<7>>},
        a \in {<<>>, <<AccountMeta(1, FALSE, FALSE), AccountMeta(2, TRUE, FALSE)>>}}

\* every input that differs from x in one field only
OneFieldChanges(x) ==
    ({[x EXCEPT !.rootMetadata.chainId = v] : v \in BigChoices}
        \cup {[x EXCEPT !.rootMetadata.multisig = v] : v \in AddressChoices}
        \cup {[x EXCEPT !.rootMetadata.preOpCount = v] : v \in BigChoices}
        \cup {[x EXCEPT !.rootMetadata.postOpCount = v] : v \in BigChoices}
        \cup {[x EXCEPT !.rootMetadata.overridePreviousRoot = v] : v \in BOOLEAN}
        \cup {[x EXCEPT !.nonce = v] : v \in BigChoices}
        \cup {[x EXCEPT !.instruction.programId = v] : v \in AddressChoices}
        \cup {[x EXCEPT !.instruction.data = v] : v \in DataBytes}
        \cup {[x EXCEPT !.instruction.accounts[n].pubkey = v] :
                 n \in 1..Len(x.instruction.accounts), v \in AddressChoices}
        \cup {[x EXCEPT !.instruction.accounts[n].isSigner = v] :
                 n \in 1..Len(x.instruction.accounts), v \in BOOLEAN}
        \cup {[x EXCEPT !.instruction.accounts[n].isWritable = v] :
                 n \in 1..Len(x.instruction.accounts), v \in BOOLEAN})
      \ {x}

InitLeaf ==
    /\ mode = "leaf"
    /\ EngineIdle /\ MutIdle /\ MerkleIdle /\ McmIdle /\ FetchIdle /\ CliIdle /\ SimIdle
    /\ \E x \in LeafInputs :
          /\ lfA = Some(x)
          /\ lfB \in {Some(y) : y \in OneFieldChanges(x)}
    /\ lfOut = JsNull

LeafOutput(x) ==
    [metadataBytes |-> MetadataPreimage(x),
     metadataLeaf |-> hashMetadataLeaf(x),
     operationBytes |-> OperationPreimage(x, x.instruction, x.nonce),
     operationLeaf |-> hashOperationLeaf(x, x.instruction, x.nonce)]

\* hashMetadataLeaf and hashOperationLeaf applied to both inputs
HashLeaves ==
    /\ mode = "leaf"
    /\ lfOut = JsNull
    /\ lfOut' = Some([a |-> LeafOutput(Val(lfA)), b |-> LeafOutput(Val(lfB))])
    /\ UNCHANGED <<mode, engineVars, mutVars, mkVars, lfA, lfB, mcmVars, fetchVars, cliVars, simVars>>

NextLeaf == HashLeaves
SpecLeaf == InitLeaf /\ [][NextLeaf]_vars

MetadataFields ==
    {"chainId", "multisig", "preOpCount", "postOpCount", "overridePreviousRoot"}
OperationFields ==
    {"chainId", "multisig", "nonce", "programId", "data", "pubkey", "isSigner",
     "isWritable"}
FieldOf(x, f) ==
    CASE f = "chainId" -> x.rootMetadata.chainId
      [] f = "multisig" -> x.rootMetadata.multisig
      [] f = "preOpCount" -> x.rootMetadata.preOpCount
      [] f = "postOpCount" -> x.rootMetadata.postOpCount
      [] f = "overridePreviousRoot" -> x.rootMetadata.overridePreviousRoot
      [] f = "nonce" -> x.nonce
      [] f = "programId" -> x.instruction.programId
      [] f = "data" -> x.instruction.data
\* the fields in which x and y differ; an account field is named with its position
DifferingFields(x, y) ==
    {<<f, 0>> : f \in {g \in (MetadataFields \cup OperationFields)
                           \ {"pubkey", "isSigner", "isWritable"} :
                           FieldOf(x, g) # FieldOf(y, g)}}
      \cup {nf \in {<<"pubkey", n>> : n \in 1..Len(x.instruction.accounts)} :
               x.instruction.accounts[nf[2]].pubkey # y.instruction.accounts[nf[2]].pubkey}
      \cup {nf \in {<<"isSigner", n>> : n \in 1..Len(x.instruction.accounts)} :
               x.instruction.accounts[nf[2]].isSigner
                   # y.instruction.accounts[nf[2]].isSigner}
      \cup {nf \in {<<"isWritable", n>> : n \in 1..Len(x.instruction.accounts)} :
               x.instruction.accounts[nf[2]].isWritable
                   # y.instruction.accounts[nf[2]].isWritable}
DifferInOneField(x, y) ==
    /\ Len(x.instruction.accounts) = Len(y.instruction.accounts)
    /\ Cardinality(DifferingFields(x, y)) = 1
TheDifferingField(x, y) == (CHOOSE nf \in DifferingFields(x, y) : TRUE)[1]
InU64(v) == v.q = 0

\* C15: two inputs that differ in exactly one field give different byte strings
\* and different leaves, for each of the two leaf functions whose input holds the
\* field, whatever values the fields take.
C15_InjectiveInEachField ==
    (IsVal(lfOut) /\ DifferInOneField(Val(lfA), Val(lfB))) =>
        LET f == TheDifferingField(Val(lfA), Val(lfB))
            out == Val(lfOut)
        IN /\ f \in MetadataFields =>
                  /\ out.a.metadataBytes # out.b.metadataBytes
                  /\ out.a.metadataLeaf # out.b.metadataLeaf
           /\ f \in OperationFields =>
                  /\ out.a.operationBytes # out.b.operationBytes
                  /\ out.a.operationLeaf # out.b.operationLeaf

\* the same property restricted to bigint fields that fit 64 bits
InjectiveOnU64 ==
    (IsVal(lfOut) /\ DifferInOneField(Val(lfA), Val(lfB))
        /\ \A f \in {"chainId", "preOpCount", "postOpCount", "nonce"} :
               InU64(FieldOf(Val(lfA), f)) /\ InU64(FieldOf(Val(lfB), f))) =>
        LET f == TheDifferingField(Val(lfA), Val(lfB))
            out == Val(lfOut)
        IN /\ f \in MetadataFields =>
                  /\ out.a.metadataBytes # out.b.metadataBytes
                  /\ out.a.metadataLeaf # out.b.metadataLeaf
           /\ f \in OperationFields =>
                  /\ out.a.operationBytes # out.b.operationBytes
                  /\ out.a.operationLeaf # out.b.operationLeaf

\* the two kinds of leaf never meet: different leading separators
DomainSeparated ==
    IsVal(lfOut) =>
        \A m \in {Val(lfOut).a, Val(lfOut).b} :
            \A o \in {Val(lfOut).a, Val(lfOut).b} :
                /\ m.metadataBytes # o.operationBytes
                /\ m.metadataLeaf # o.operationLeaf
                /\ SubSeq(m.metadataBytes, 1, Len(DOMAIN_SEPARATOR_METADATA))
                       = DOMAIN_SEPARATOR_METADATA
                /\ SubSeq(o.operationBytes, 1, Len(DOMAIN_SEPARATOR_OP))
                       = DOMAIN_SEPARATOR_OP
                /\ DOMAIN_SEPARATOR_METADATA # DOMAIN_SEPARATOR_OP

\* C16: the byte string of a metadata leaf differs from the byte string of an
\* operation leaf, so the two kinds of leaf are never equal, and two leaves of
\* the same kind built for different chain ids are never equal.
C16_DomainSeparated ==
    /\ DomainSeparated
    /\ (IsVal(lfOut)
          /\ Val(lfA).rootMetadata.chainId # Val(lfB).rootMetadata.chainId) =>
           /\ Val(lfOut).a.metadataLeaf # Val(lfOut).b.metadataLeaf
           /\ Val(lfOut).a.operationLeaf # Val(lfOut).b.operationLeaf


(***************************************************************************)
(* Proposal validation and runMcmSimulation                                *)
(***************************************************************************)
Throw(message) == <<"throw", message>>

\* a string is a sequence of characters
Chars(c, n) == [k \in 1..n |-> c]
HexValue(c) ==
    CASE c = "0" -> 0
      [] c = "a" -> 10
      [] c = "f" -> 15
      [] OTHER -> -1
\* bytes[i] = parseInt(byte, 16): parseInt reads the leading hex digits and gives
\* NaN when there is none; a Uint8Array stores NaN as 0
parseInt16(byte) ==
    IF HexValue(byte[1]) < 0 THEN 0
    ELSE IF HexValue(byte[2]) < 0 THEN HexValue(byte[1])
    ELSE 16 * HexValue(byte[1]) + HexValue(byte[2])
parseHex(hex) ==
    IF ~(Len(hex) >= 2 /\ hex[1] = "0" /\ hex[2] = "x")
    THEN Throw("Invalid hex string: must start with 0x")
    ELSE LET hexString == SubSeq(hex, 3, Len(hex))
         IN IF Len(hexString) % 2 # 0
            THEN Throw("Invalid hex string: odd length")
            ELSE Some([n \in 1..(Len(hexString) \div 2) |->
                          parseInt16(SubSeq(hexString, 2 * n - 1, 2 * n))])

\* a JSON number is an integer <<"int", n>> or not an integer <<"frac">>;
\* BigInt() of the latter throws a RangeError
IsInteger(num) == num[1] = "int"
\* a base58 string is an address <<"addr", a>> or not one <<"bad">>; address()
\* of the latter throws
IsAddress(str) == str[1] = "addr"
BigLess(a, b) == a.q < b.q \/ (a.q = b.q /\ a.r < b.r)
\* a - b for a.r >= b.r (no borrow)
BigSub(a, b) == Big(a.q - b.q, a.r - b.r)

\* rootMetadata.postOpCount <= rootMetadata.preOpCount
CountsRejectedMutAllowEqual(preOpCount, postOpCount) == BigLess(postOpCount, preOpCount)
CountsRejected(preOpCount, postOpCount) ==
    BigLess(postOpCount, preOpCount) \/ postOpCount = preOpCount

parseInstruction(ix) ==
    Instruction(ix.programId[2], ix.data,
                [n \in 1..Len(ix.accounts) |->
                    AccountMeta(ix.accounts[n].pubkey[2], ix.accounts[n].isSigner,
                                ix.accounts[n].isWritable)])
InstructionThrows(ix) ==
    \/ \E n \in 1..Len(ix.accounts) : ~IsAddress(ix.accounts[n].pubkey)
    \/ ~IsAddress(ix.programId)

validateProposal(j) ==
    LET multisigId == parseHex(j.multisigId)
        m == j.rootMetadata
    IN IF ~IsVal(multisigId) THEN multisigId
       ELSE IF Len(Val(multisigId)) # 32 THEN Throw("multisigId must be 32 bytes")
       ELSE IF ~IsInteger(m.chainId) THEN Throw("RangeError")
       ELSE IF ~IsAddress(m.multisig) THEN Throw("not a base58 address")
       ELSE IF ~IsInteger(m.preOpCount) \/ ~IsInteger(m.postOpCount)
       THEN Throw("RangeError")
       ELSE LET rootMetadata ==
                    [chainId |-> BigInt(m.chainId[2]), multisig |-> m.multisig[2],
                     preOpCount |-> BigInt(m.preOpCount[2]),
                     postOpCount |-> BigInt(m.postOpCount[2]),
                     overridePreviousRoot |-> m.overridePreviousRoot]
            IN IF CountsRejected(rootMetadata.preOpCount, rootMetadata.postOpCount)
               THEN Throw("postOpCount must be > preOpCount")
               ELSE IF BigInt(Len(j.instructions))
                          # BigSub(rootMetadata.postOpCount, rootMetadata.preOpCount)
               THEN Throw("Expected a different number of instructions")
               ELSE IF \E n \in 1..Len(j.instructions) : InstructionThrows(j.instructions[n])
               THEN Throw("not a base58 address")
               ELSE Some([multisigId |-> Val(multisigId),
                          validUntil |-> j.validUntil,
                          instructions |->
                              [n \in 1..Len(j.instructions) |->
                                  parseInstruction(j.instructions[n])],
                          rootMetadata |-> rootMetadata])

\* readFile and JSON.parse, then validateProposal
loadProposal(file) ==
    IF ~IsVal(file) THEN Throw("cannot read or parse the file")
    ELSE validateProposal(Val(file))

HexStrings ==
    {<<"0", "x">> \o Chars("a", 64),      \* 32 bytes
     <<"0", "x">> \o Chars("z", 64),      \* 32 bytes, no hex digit among them
     <<"0", "x">> \o Chars("a", 62),      \* 31 bytes
     <<"0", "x">> \o Chars("f", 66),      \* 33 bytes
     <<"0", "x">> \o Chars("a", 63),      \* odd length
     Chars("a", 64)}                      \* no prefix
NumberChoices == {<<"int", 0>>, <<"int", 1>>, <<"int", 2>>, <<"frac">>}
InstructionJson(programId) ==
    [programId |-> programId, data |-> <<7>>,
     accounts |-> <<[pubkey |-> <<"addr", 2>>, isSigner |-> FALSE, isWritable |-> TRUE]>>]
InstructionJsonLists ==
    {<<>>, <<InstructionJson(<<"addr", 1>>)>>,
     <<InstructionJson(<<"addr", 1>>), InstructionJson(<<"addr", 1>>)>>,
     <<InstructionJson(<<"bad">>)>>}
ProposalJsons ==
    {[multisigId |-> h, validUntil |-> 7200, instructions |-> ixs,
      rootMetadata |-> [chainId |-> <<"int", 1>>, multisig |-> ms,
                        preOpCount |-> pre, postOpCount |-> post,
                        overridePreviousRoot |-> FALSE]] :
        h \in HexStrings, ixs \in InstructionJsonLists,
        ms \in {<<"addr", 1>>, <<"bad">>},
        pre \in NumberChoices, post \in NumberChoices}
Configs ==
    {[file |-> f, mcmProgramId |-> pid] :
        f \in {Some(j) : j \in ProposalJsons} \cup {<<"unreadable">>},
        pid \in {<<"addr", 9>>, <<"bad">>}}

InitMcm ==
    /\ mode = "mcm"
    /\ EngineIdle /\ MutIdle /\ MerkleIdle /\ LeafIdle /\ FetchIdle /\ CliIdle /\ SimIdle
    /\ config \in Configs
    /\ mpc = "loadProposal"
    /\ loaded = JsNull
    /\ work = <<>>

McmOthers == <<mode, engineVars, mutVars, mkVars, leafVars, fetchVars, cliVars, simVars, config>>

\* const proposal = await loadProposal(config.proposalPath): it returns
LoadProposalReturns ==
    /\ mode = "mcm" /\ mpc = "loadProposal"
    /\ IsVal(loadProposal(config.file))
    /\ loaded' = loadProposal(config.file)
    /\ mpc' = "computeMerkleRoot"
    /\ UNCHANGED <<McmOthers, work>>

\* ... or it throws and runMcmSimulation rejects
LoadProposalThrows ==
    /\ mode = "mcm" /\ mpc = "loadProposal"
    /\ ~IsVal(loadProposal(config.file))
    /\ mpc' = "rejected"
    /\ UNCHANGED <<McmOthers, loaded, work>>

ComputeRoot ==
    /\ mode = "mcm" /\ mpc = "computeMerkleRoot"
    /\ work' = Append(work, "computeMerkleRoot")
    /\ mpc' = "address"
    /\ UNCHANGED <<McmOthers, loaded>>

\* const mcmProgram = address(config.mcmProgramId)
ParseProgramId ==
    /\ mode = "mcm" /\ mpc = "address"
    /\ mpc' = IF IsAddress(config.mcmProgramId) THEN "createMcmSimulation" ELSE "rejected"
    /\ UNCHANGED <<McmOthers, loaded, work>>

CreateMcmSimulation ==
    /\ mode = "mcm" /\ mpc = "createMcmSimulation"
    /\ work' = Append(work, "createMcmSimulation")
    /\ mpc' = "createSimulator"
    /\ UNCHANGED <<McmOthers, loaded>>

CreateSimulator ==
    /\ mode = "mcm" /\ mpc = "createSimulator"
    /\ work' = Append(work, "createSimulator")
    /\ mpc' = "fetchAllAccounts"
    /\ UNCHANGED <<McmOthers, loaded>>

\* runSimulation: the account load, which the strict loader may reject
RunFetch ==
    /\ mode = "mcm" /\ mpc = "fetchAllAccounts"
    /\ work' = Append(work, "fetchAllAccounts")
    /\ mpc' \in {"executeBatch", "rejected"}
    /\ UNCHANGED <<McmOthers, loaded>>

\* runSimulation: one batch per instruction of the proposal
RunBatches ==
    /\ mode = "mcm" /\ mpc = "executeBatch"
    /\ work' = work \o [n \in 1..Len(Val(loaded).instructions) |-> "executeBatch"]
    /\ mpc' = "createSimulationReport"
    /\ UNCHANGED <<McmOthers, loaded>>

CreateReport ==
    /\ mode = "mcm" /\ mpc = "createSimulationReport"
    /\ mpc' = "done"
    /\ UNCHANGED <<McmOthers, loaded, work>>

NextMcm ==
    \/ LoadProposalReturns \/ LoadProposalThrows \/ ComputeRoot \/ ParseProgramId
    \/ CreateMcmSimulation \/ CreateSimulator \/ RunFetch \/ RunBatches \/ CreateReport
SpecMcm == InitMcm /\ [][NextMcm]_vars

\* C17: loadProposal either throws or returns a Proposal whose multisigId has 32
\* bytes, whose postOpCount is greater than preOpCount and whose instruction
\* count is postOpCount - preOpCount; as long as it has not returned, and so
\* when it throws, runMcmSimulation has done no simulation work.
C17_ValidOrNoWork ==
    /\ IsVal(loaded) =>
           LET p == Val(loaded)
           IN /\ Len(p.multisigId) = 32
              /\ BigLess(p.rootMetadata.preOpCount, p.rootMetadata.postOpCount)
              /\ p.rootMetadata.postOpCount
                     = BigAdd(p.rootMetadata.preOpCount, Len(p.instructions))
    /\ ~IsVal(loaded) => (work = <<>> /\ mpc \in {"loadProposal", "rejected"})
    /\ (mpc # "loadProposal" /\ ~IsVal(loaded)) => mpc = "rejected"

\* a multisigId without one hex digit still parses to 32 bytes and the run
\* goes through its two batches
C17_Witness ==
    /\ mpc = "done"
    /\ IsVal(loaded)
    /\ Len(Val(loaded).instructions) = 2
    /\ Val(loaded).multisigId = Chars(0, 32)
    /\ Len(work) = 6


(***************************************************************************)
(* The lenient loader on its own: fetchAccounts over Promise.allSettled    *)
(***************************************************************************)
MaxFetches == 3
FetchAddresses == {"a1", "a2", "prog"}
PubkeyLists == UNION {[1..n -> FetchAddresses] : n \in 0..MaxFetches}

Pending == [status |-> "pending"]
Fulfilled(value) == [status |-> "fulfilled", value |-> value]
Rejected(reason) == [status |-> "rejected", reason |-> reason]

\* the for loop over results: accounts.set(pubkeys[i], result.value) for the
\* fulfilled ones, a warning for the others
RECURSIVE collectSettledMutStopAtFailure(_, _)
collectSettledMutStopAtFailure(keys, results) ==
    IF keys = <<>> THEN <<>>
    ELSE LET n == Len(keys)
             sofar == collectSettledMutStopAtFailure(SubSeq(keys, 1, n - 1),
                                                     SubSeq(results, 1, n - 1))
         IN IF \E k \in 1..n : results[k].status # "fulfilled" THEN sofar
            ELSE MapSet(sofar, keys[n], results[n].value)
RECURSIVE collectSettled(_, _)
collectSettled(keys, results) ==
    IF keys = <<>> THEN <<>>
    ELSE LET n == Len(keys)
             sofar == collectSettled(SubSeq(keys, 1, n - 1), SubSeq(results, 1, n - 1))
         IN IF results[n].status = "fulfilled"
            THEN MapSet(sofar, keys[n], results[n].value)
            ELSE sofar

InitFetch ==
    /\ mode = "fetch"
    /\ EngineIdle /\ MutIdle /\ MerkleIdle /\ LeafIdle /\ McmIdle /\ CliIdle /\ SimIdle
    /\ requested \in PubkeyLists
    /\ settled = Some([results |-> [k \in 1..Len(requested) |-> Pending], order |-> <<>>])
    /\ fpc = "allSettled"
    /\ fetched = JsNull

FetchOthers == <<mode, engineVars, mutVars, mkVars, leafVars, mcmVars, cliVars, simVars, requested>>
IsPending(k) == Val(settled).results[k].status = "pending"
Settle(k, outcome) ==
    settled' = Some([results |-> [Val(settled).results EXCEPT ![k] = outcome],
                     order |-> Append(Val(settled).order, k)])

\* fetchAccount(client, pubkeys[k]) returns the account the RPC holds
FetchFulfils ==
    /\ mode = "fetch" /\ fpc = "allSettled"
    /\ \E k \in 1..Len(requested) :
          /\ IsPending(k)
          /\ Settle(k, Fulfilled(Val(net[requested[k]])))
    /\ UNCHANGED <<FetchOthers, fpc, fetched>>

\* ... or throws: the account does not exist or the request failed
FetchRejected ==
    /\ mode = "fetch" /\ fpc = "allSettled"
    /\ \E k \in 1..Len(requested) :
          /\ IsPending(k)
          /\ Settle(k, Rejected("Error"))
    /\ UNCHANGED <<FetchOthers, fpc, fetched>>

\* every promise has settled: the await returns, the loop runs, the map is returned
FetchResolves ==
    /\ mode = "fetch" /\ fpc = "allSettled"
    /\ \A k \in 1..Len(requested) : ~IsPending(k)
    /\ fetched' = Some(collectSettled(requested, Val(settled).results))
    /\ fpc' = "resolved"
    /\ UNCHANGED <<FetchOthers, settled>>

NextFetch == FetchFulfils \/ FetchRejected \/ FetchResolves
\* every fetch settles in the end, and the await returns once all have
SpecFetch == InitFetch /\ [][NextFetch]_vars /\ WF_vars(NextFetch)

FulfilledAt == {k \in 1..Len(requested) : Val(settled).results[k].status = "fulfilled"}
MapKeys(m) == {m[n][1] : n \in 1..Len(m)}
C20_KeysAreTheFulfilled ==
    fpc = "resolved" =>
        LET m == Val(fetched)
        IN /\ MapKeys(m) = {requested[k] : k \in FulfilledAt}
           /\ \A n \in 1..Len(m) :
                  /\ \E k \in FulfilledAt :
                         requested[k] = m[n][1] /\ Val(settled).results[k].value = m[n][2]
                  /\ m[n][2] = ChainAccount(m[n][1])
                  /\ \A o \in 1..Len(m) : m[o][1] = m[n][1] => o = n

\* C20: whichever fetches fail and in whatever order the fetches settle,
\* fetchAccounts resolves, and the map it resolves with has as keys exactly the
\* requested addresses with a fulfilled fetch, each with the account fetched for
\* it; a rejected fetch removes or blocks no other address.
C20_LenientLoad == []C20_KeysAreTheFulfilled /\ <>(fpc = "resolved")

\* three fetches settle last-first, the middle one is rejected
C20_Witness ==
    /\ fpc = "resolved"
    /\ requested = <<"a1", "a2", "prog">>
    /\ Val(settled).order = <<3, 2, 1>>
    /\ Val(settled).results[2].status = "rejected"
    /\ Val(fetched) = <<<<"a1", ChainAccount("a1")>>, <<"prog", ChainAccount("prog")>>>>


(***************************************************************************)
(* Properties of the simulation engine (checked under Spec)                *)
(***************************************************************************)
Returned == pc = "done"
Last(seq) == seq[Len(seq)]

\* C2: when runSimulation returns there is exactly one BatchResult per batch
\* of simulation.batches(), in batch order: a batch the sandbox rejected did
\* not stop the loop, and every batch whose own processing raised no error
\* was submitted, whatever happened to the batches before it.
C2_OneResultPerBatch ==
    Returned =>
        /\ Len(batchResults) = Len(sim.batches)
        /\ \A k \in 1..Len(batchResults) :
              /\ batchResults[k].index = k - 1
              /\ batchResults[k].error # Some("Error.message")
                     => \E j \in 1..Len(submitLog) : submitLog[j] = k - 1

\* batch 0 was rejected by the sandbox and batch 1 was still submitted
C2_Witness ==
    /\ Returned
    /\ Len(sim.batches) = 2
    /\ submitLog = <<0, 1>>
    /\ ~batchResults[1].success /\ batchResults[1].error # Some("Error.message")
    /\ batchResults[2].success

\* C3: an error raised while batch i is processed never leaves runSimulation:
\* it becomes the failed BatchResult of batch i.
C3_ErrorsNeverEscape == pc # "batchRejected"

\* C4 as stated: at the end of a run every batch 0..N-1 has been submitted to
\* the sandbox exactly once, in index order.
C4_EachSubmittedOnce ==
    Returned => submitLog = [k \in 1..Len(sim.batches) |-> k - 1]

\* C4 amended: submissions happen in strictly increasing index order, one at a
\* time and at most once per batch; a batch is submitted exactly once unless
\* an error was caught before its submission; batchResults[k].index = k and a
\* result already appended is never changed.
C4_Ordered ==
    /\ \A j, k \in 1..Len(submitLog) : j < k => submitLog[j] < submitLog[k]
    /\ \A k \in 1..Len(submitLog) : submitLog[k] < Len(sim.batches) /\ submitLog[k] <= i
    /\ Cardinality({k \in 1..Len(submitLog) : submitLog[k] >= Len(batchResults)}) <= 1
    /\ \A k \in 1..Len(batchResults) :
          /\ batchResults[k].index = k - 1
          /\ batchResults[k].error # Some("Error.message")
                 => \E j \in 1..Len(submitLog) : submitLog[j] = k - 1
C4_InOrderNeverRevised ==
    /\ []C4_Ordered
    /\ [][/\ Len(batchResults') >= Len(batchResults)
          /\ SubSeq(batchResults', 1, Len(batchResults)) = batchResults]_vars

\* batch 0 threw before its submission and was never submitted, batch 1 was
C4_Witness ==
    /\ Returned
    /\ Len(batchResults) = 2
    /\ batchResults[1].error = Some("Error.message")
    /\ submitLog = <<1>>

\* C5: staging is sequential (loads, then overrides, then the clock, then
\* batch 0) and once staging is complete the sandbox holds the override state
\* for every address of accountOverrides(), loaded or not.
StageRank(entry) ==
    CASE entry[1] = "load" -> 1 [] entry[1] = "override" -> 2 [] entry[1] = "clock" -> 3
Staging == pc \in {"load", "setLoaded", "override", "clock", "loadRejected"}
StagingComplete == pc = "loop" /\ i = 0
\* the state the last override for address a gives it
RECURSIVE OverrideFor(_, _)
OverrideFor(overrides, a) ==
    IF overrides = <<>> THEN JsNull
    ELSE IF Last(overrides)[1] = a THEN Some(Last(overrides)[2])
    ELSE OverrideFor(SubSeq(overrides, 1, Len(overrides) - 1), a)
C6_ResultShape ==
    \A k \in 1..Len(batchResults) :
        /\ ~batchResults[k].success =>
               IsVal(batchResults[k].error) /\ batchResults[k].mutations = <<>>
        /\ batchResults[k].success => batchResults[k].error = JsNull

\* C10: the mutations of a successful batch name exactly the tracked addresses
\* whose sandbox state right before the submission differs from the state
\* right after it, and the values reported are those two states.
JustSucceeded ==
    /\ pc \in {"loop", "done"}
    /\ batchResults # <<>>
    /\ Last(batchResults).success
ReportsSide(acc, existed, owner, lamps, changed, data) ==
    /\ existed = IsVal(acc)
    /\ owner = (IF IsVal(acc) THEN Some(Val(acc).owner) ELSE JsNull)
    /\ lamps = (IF IsVal(acc) THEN Some(Val(acc).lamports) ELSE JsNull)
    /\ changed => data = (IF IsVal(acc) THEN Some(Val(acc).data) ELSE JsNull)
C10_MutationsAreTheChanges ==
    JustSucceeded =>
        LET muts == Last(batchResults).mutations
            pre == Val(preSubmit)
        IN /\ tracked = sim.track[Last(batchResults).index]
           /\ {muts[k].pubkey : k \in 1..Len(muts)}
                  = {a \in SeqToSet(tracked) : Observable(pre[a]) # Observable(svm[a])}
           /\ \A k \in 1..Len(muts) :
                 /\ ReportsSide(pre[muts[k].pubkey], muts[k].existedBefore, muts[k].ownerBefore,
                                muts[k].lamportsBefore, muts[k].dataChanged, muts[k].dataBefore)
                 /\ ReportsSide(svm[muts[k].pubkey], muts[k].existedAfter, muts[k].ownerAfter,
                                muts[k].lamportsAfter, muts[k].dataChanged, muts[k].dataAfter)

\* a transfer changed the tracked payer and the untracked a2; a1 is tracked
\* and unchanged: one mutation, for the payer
C10_Witness ==
    /\ JustSucceeded
    /\ tracked = <<"a1", "payer">>
    /\ IsVal(svm["a1"])
    /\ Observable(Val(preSubmit)["a2"]) # Observable(svm["a2"])
    /\ Len(Last(batchResults).mutations) = 1
    /\ Last(batchResults).mutations[1].pubkey = "payer"


\* an address of accountsToLoad() is absent, or it is an upgradeable program
\* whose ProgramData account is absent
MissingLoad ==
    \E a \in SeqToSet(sim.accountsToLoad) :
        \/ IsNull(net[a])
        \/ /\ IsVal(net[a])
           /\ IsUpgradeableProgram(Val(net[a]))
           /\ IsNull(net[ProgramDataOf(a)])

\* C19: with the strict loader (lite-sim), when an address of accountsToLoad()
\* or the ProgramData account of a loaded upgradeable program does not exist,
\* runSimulation rejects at the load and the sandbox stays untouched: no account
\* written, no override applied, the clock not set, no batch executed.
C19_StrictLoadAllOrNothing ==
    (engine = "lite-sim" /\ MissingLoad) =>
        /\ pc \in {"load", "loadRejected"}
        /\ svm = [a \in Addr |-> JsNull]
        /\ stageLog = <<>>
        /\ ovIdx = 0
        /\ svmSlot = 0 /\ svmUnixTs = 0
        /\ batchResults = <<>> /\ submitLog = <<>>

\* the program is there, its ProgramData account is not; overrides, a clock and
\* batches were waiting
C19_Witness ==
    /\ engine = "lite-sim"
    /\ pc = "loadRejected"
    /\ IsVal(net["prog"]) /\ IsNull(net["pd"])
    /\ sim.accountOverrides # <<>>
    /\ IsVal(sim.clockTimestamp)
    /\ sim.batches # <<>>
    /\ svm = [a \in Addr |-> JsNull]

(***************************************************************************)
(* The clock stage and the frame of a failed batch                         *)
(***************************************************************************)
\* the clock stage is over and batch 0 has not been entered
BeforeBatch0 == pc = "loop" /\ i = 0

\* C21: when clockTimestamp() returns an instant t, the Unix timestamp of the
\* sandbox Clock equals t after the clock stage and before batch 0; when it
\* returns null the Clock is left as it was.
C21_ClockIsTheInstant ==
    BeforeBatch0 =>
        IF IsVal(sim.clockTimestamp)
        THEN svmUnixTs = Val(sim.clockTimestamp)
        ELSE svmUnixTs = 0 /\ svmSlot = 0

\* the batch that just got its result failed
LastBatchFailed ==
    /\ pc \in {"loop", "done"}
    /\ batchResults # <<>>
    /\ ~batchResults[Len(batchResults)].success

\* C27: a batch whose result is success=false leaves the sandbox table exactly
\* as it was when the batch started, the payer's balance included.
C27_FailedBatchLeavesTable ==
    LastBatchFailed => svm = Val(batchStart)

\* the table of the batch in progress once the payer has its airdrop, if any
Funded ==
    IF IsVal(Val(payerCfg).airdropAmount)
    THEN airdrop(Val(batchStart), Val(payerCfg).address, Val(Val(payerCfg).airdropAmount))
    ELSE Val(batchStart)

\* C27 (amended): a failed batch whose submission the sandbox rejected, or which
\* failed before it was submitted, leaves the table as it was when the batch
\* started, except that the payer keeps the airdrop of that batch when one is
\* configured; only when an error is thrown after the sandbox accepted the
\* submission does the failed batch leave all its instructions applied.
C27_FailedBatchKeepsOnlyAirdrop ==
    LastBatchFailed =>
        \/ svm = Val(batchStart)
        \/ svm = Funded
        \/ /\ batchResults[Len(batchResults)].error = Some("Error.message")
           /\ preSubmit = Some(Funded)
           /\ svm = Val(RunBatch(Funded, Val(payerCfg).address,
                                 sim.batches[Len(batchResults)]))

\* a funded batch was handed to the sandbox, which rejected it: the payer is
\* richer than when the batch started, and nothing else has changed
C27_Witness ==
    /\ LastBatchFailed
    /\ submitLog # <<>> /\ submitLog[Len(submitLog)] = Len(batchResults) - 1
    /\ IsVal(Val(payerCfg).airdropAmount)
    /\ batchResults[Len(batchResults)].error # Some("Error.message")
    /\ svm # Val(batchStart)
    /\ svm = Funded

(***************************************************************************)
(* mcm-runner command line: parseArgs and main                             *)
(***************************************************************************)
MaxArgs == 3
\* -p and -o take the next argument as their value, -h asks for help, -x is
\* an option the program does not know, f is an argument without a dash
ArgChoices == {"-p", "-o", "-h", "-x", "f"}
ArgLists == UNION {[1..n -> ArgChoices] : n \in 0..MaxArgs}

\* args[++i]: the next argument, undefined past the end
NextArg(args, k) == IF k + 1 <= Len(args) THEN Some(args[k + 1]) ELSE JsUndefined

\* parseArgs from position k (1-based) with the options read so far: the
\* options, or the status process.exit was called with
RECURSIVE parseArgsFrom(_, _, _)
parseArgsFrom(args, k, opts) ==
    IF k > Len(args) THEN opts
    ELSE CASE args[k] = "-p" ->
                parseArgsFrom(args, k + 2, [opts EXCEPT !.proposalPath = NextArg(args, k)])
           [] args[k] = "-o" ->
                parseArgsFrom(args, k + 2, [opts EXCEPT !.outputPath = NextArg(args, k)])
           [] args[k] = "-h" -> [opts EXCEPT !.help = TRUE, !.exit = Some(0)]
           [] args[k] = "-x" -> [opts EXCEPT !.exit = Some(1)]
           [] OTHER ->
                parseArgsFrom(args, k + 1, [opts EXCEPT !.proposalPath = Some(args[k])])
parseArgs(args) ==
    parseArgsFrom(args, 1, [proposalPath |-> JsUndefined, outputPath |-> JsUndefined,
                            help |-> FALSE, exit |-> JsNull])

\* the SimulationReport as main reads it: success of each instruction entry
MaxReport == 2
Reports == UNION {[1..n -> [success : BOOLEAN]] : n \in 0..MaxReport}

\* report.instructions.every(ix => ix.success)
allSuccessMutSome(instructions) ==
    \E k \in 1..Len(instructions) : instructions[k].success
allSuccess(instructions) ==
    \A k \in 1..Len(instructions) : instructions[k].success

InitCli ==
    /\ mode = "cli"
    /\ argv \in ArgLists
    /\ cpc = "parseArgs"
    /\ cli = [opts |-> JsNull, report |-> JsNull, written |-> FALSE, exit |-> JsNull]
    /\ EngineIdle /\ MutIdle /\ MerkleIdle /\ LeafIdle /\ McmIdle /\ FetchIdle /\ SimIdle

CliOthers == <<mode, engineVars, mutVars, mkVars, leafVars, mcmVars, fetchVars, simVars, argv>>

\* process.exit(code)
Exit(code) == cpc' = "exited" /\ cli' = [cli EXCEPT !.exit = Some(code)]

\* parseArgs(): help and unknown options end the process inside it
ParseArgs ==
    /\ mode = "cli" /\ cpc = "parseArgs"
    /\ LET opts == parseArgs(argv)
       IN  IF IsVal(opts.exit)
           THEN /\ cpc' = "exited"
                /\ cli' = [cli EXCEPT !.opts = Some(opts), !.exit = opts.exit]
           ELSE /\ cpc' = "proposalPath"
                /\ cli' = [cli EXCEPT !.opts = Some(opts)]
    /\ UNCHANGED CliOthers

\* if (!proposalPath) process.exit(1)
RequireProposalPath ==
    /\ mode = "cli" /\ cpc = "proposalPath"
    /\ IF IsVal(Val(cli.opts).proposalPath)
       THEN cpc' = "runMcmSimulation" /\ UNCHANGED cli
       ELSE Exit(1)
    /\ UNCHANGED CliOthers

\* await runMcmSimulation(...) resolves with a report, which is printed
SimulationReturns ==
    /\ mode = "cli" /\ cpc = "runMcmSimulation"
    /\ \E report \in Reports : cli' = [cli EXCEPT !.report = Some(report)]
    /\ cpc' = "writeFile"
    /\ UNCHANGED CliOthers

\* await runMcmSimulation(...) rejects: the catch clause exits with 1
SimulationThrows ==
    /\ mode = "cli" /\ cpc = "runMcmSimulation"
    /\ Exit(1)
    /\ UNCHANGED CliOthers

\* if (outputPath) await writeFile(...): the file is written when asked for
WriteFile ==
    /\ mode = "cli" /\ cpc = "writeFile"
    /\ cli' = [cli EXCEPT !.written = IsVal(Val(cli.opts).outputPath)]
    /\ cpc' = "allSuccess"
    /\ UNCHANGED CliOthers

\* writeFile rejects: the catch clause exits with 1
WriteFileThrows ==
    /\ mode = "cli" /\ cpc = "writeFile"
    /\ IsVal(Val(cli.opts).outputPath)
    /\ Exit(1)
    /\ UNCHANGED CliOthers

\* process.exit(allSuccess ? 0 : 1)
ExitWithStatus ==
    /\ mode = "cli" /\ cpc = "allSuccess"
    /\ Exit(IF allSuccess(Val(cli.report)) THEN 0 ELSE 1)
    /\ UNCHANGED CliOthers

NextCli ==
    \/ ParseArgs \/ RequireProposalPath \/ SimulationReturns \/ SimulationThrows
    \/ WriteFile \/ WriteFileThrows \/ ExitWithStatus

SpecCli == InitCli /\ [][NextCli]_vars

Exited == mode = "cli" /\ cpc = "exited"
\* runMcmSimulation returned a report in which every instruction succeeded
ReportAllSuccess ==
    IsVal(cli.report) /\ \A k \in 1..Len(Val(cli.report)) : Val(cli.report)[k].success

\* C22: the exit status is 0 if and only if runMcmSimulation returned a report
\* and every instruction entry in it has success=true; otherwise it is 1.
C22_ExitZeroIffAllSucceeded ==
    Exited =>
        /\ cli.exit \in {Some(0), Some(1)}
        /\ cli.exit = Some(0) <=> ReportAllSuccess

\* C22 (amended): the exit status is 0 or 1; apart from a request for help,
\* which exits with 0 without running anything, it is 0 if and only if
\* runMcmSimulation returned a report, every instruction entry in it has
\* success=true and the report file, when one was asked for, was written.
C22_ExitZeroIffAllDone ==
    Exited =>
        /\ cli.exit \in {Some(0), Some(1)}
        /\ cli.exit = Some(0) <=>
              \/ Val(cli.opts).help
              \/ /\ ReportAllSuccess
                 /\ IsVal(Val(cli.opts).outputPath) => cli.written
        /\ Val(cli.opts).help => IsNull(cli.report)

\* two instructions succeeded, the report was saved, the status is 0
C22_Witness ==
    /\ Exited
    /\ cli.exit = Some(0)
    /\ IsVal(cli.report) /\ Len(Val(cli.report)) = 2
    /\ ReportAllSuccess
    /\ cli.written

(***************************************************************************)
(* MCM program encodings: discriminators, accounts, execute instruction    *)
(***************************************************************************)
\* a 32-byte digest as a byte array: the digest h, which stands for all its
\* bytes, in the first cell and 31 cells of filling
Bytes32(h) == <<h>> \o Zeros(31)
\* sha256 of a byte string: like keccak_256, a digest named by its pre-image
sha256(bytes) == <<-1>> \o bytes

\* new TextEncoder().encode of the prefixes and names
AccountPrefix == <<97, 99, 99, 111, 117, 110, 116, 58>>
GlobalPrefix == <<103, 108, 111, 98, 97, 108, 58>>
ExpiringRootAndOpCountName ==
    <<69, 120, 112, 105, 114, 105, 110, 103, 82, 111, 111, 116, 65, 110, 100, 79, 112,
      67, 111, 117, 110, 116>>
RootMetadataName == <<82, 111, 111, 116, 77, 101, 116, 97, 100, 97, 116, 97>>
ExecuteName == <<101, 120, 101, 99, 117, 116, 101>>

\* sha256("account:" + name).slice(0, 8)
accountDiscriminator(name) == SubSeq(Bytes32(sha256(AccountPrefix \o name)), 1, 8)
\* sha256("global:" + name).slice(0, 8)
instructionDiscriminator(name) == SubSeq(Bytes32(sha256(GlobalPrefix \o name)), 1, 8)

\* readUInt32LE / readBigUInt64LE: the number the bytes spell, least
\* significant byte first
RECURSIVE FromLittleEndian(_)
FromLittleEndian(bytes) ==
    IF bytes = <<>> THEN 0 ELSE bytes[1] + 256 * FromLittleEndian(Tail(bytes))

\* writeBigUInt64LE and writeUInt32LE throw ERR_OUT_OF_RANGE outside the range
\* of the word; numbers here stay below 2^31, so only negatives are outside u32
OutOfU64(value) == value.q # 0 \/ value.r < 0
OutOfU32(value) == value < 0
RangeError == Throw("ERR_OUT_OF_RANGE")

\* discriminator, root, validUntil as u32, opCount as u64
encodeExpiringRootAndOpCountMutU16(data) ==
    IF OutOfU32(data.validUntil) \/ OutOfU64(data.opCount) THEN RangeError
    ELSE Some(accountDiscriminator(ExpiringRootAndOpCountName)
                \o data.root
                \o LittleEndian(data.validUntil, 2) \o <<0, 0>>
                \o LittleEndian(data.opCount.r, 8))
encodeExpiringRootAndOpCount(data) ==
    IF OutOfU32(data.validUntil) \/ OutOfU64(data.opCount) THEN RangeError
    ELSE Some(accountDiscriminator(ExpiringRootAndOpCountName)
                \o data.root
                \o LittleEndian(data.validUntil, 4)
                \o LittleEndian(data.opCount.r, 8))

\* bytes.slice(8), then the three fields at offsets 0, 32 and 36
decodeExpiringRootAndOpCount(bytes) ==
    LET buffer == SubSeq(bytes, 9, Len(bytes))
    IN  [root |-> SubSeq(buffer, 1, 32),
         validUntil |-> FromLittleEndian(SubSeq(buffer, 33, 36)),
         opCount |-> BigInt(FromLittleEndian(SubSeq(buffer, 37, 44)))]

\* addressCodec.decode: the address of 32 bytes (see addressEncoder)
addressDecoder(bytes) == bytes[32]

\* discriminator, chainId, multisig, preOpCount, postOpCount, one byte of flag
encodeRootMetadata(data) ==
    IF OutOfU64(data.chainId) \/ OutOfU64(data.preOpCount) \/ OutOfU64(data.postOpCount)
    THEN RangeError
    ELSE Some(accountDiscriminator(RootMetadataName)
                \o LittleEndian(data.chainId.r, 8)
                \o addressEncoder(data.multisig)
                \o LittleEndian(data.preOpCount.r, 8)
                \o LittleEndian(data.postOpCount.r, 8)
                \o <<IF data.overridePreviousRoot THEN 1 ELSE 0>>)

decodeRootMetadata(bytes) ==
    LET buffer == SubSeq(bytes, 9, Len(bytes))
    IN  [chainId |-> BigInt(FromLittleEndian(SubSeq(buffer, 1, 8))),
         multisig |-> addressDecoder(SubSeq(buffer, 9, 40)),
         preOpCount |-> BigInt(FromLittleEndian(SubSeq(buffer, 41, 48))),
         postOpCount |-> BigInt(FromLittleEndian(SubSeq(buffer, 49, 56))),
         overridePreviousRoot |-> buffer[57] # 0]

\* the proof elements one after the other, 32 bytes each
RECURSIVE ProofChunksMutReversed(_)
ProofChunksMutReversed(proof) ==
    IF proof = <<>> THEN <<>> ELSE ProofChunksMutReversed(Tail(proof)) \o proof[1]
RECURSIVE ProofChunks(_)
ProofChunks(proof) ==
    IF proof = <<>> THEN <<>> ELSE proof[1] \o ProofChunks(Tail(proof))

\* multisigId, chainId, nonce, length and bytes of data, count and elements of
\* the proof
encodeExecuteArgs(args) ==
    IF OutOfU64(args.chainId) \/ OutOfU64(args.nonce) THEN RangeError
    ELSE Some(args.multisigId
                \o LittleEndian(args.chainId.r, 8)
                \o LittleEndian(args.nonce.r, 8)
                \o LittleEndian(Len(args.data), 4)
                \o args.data
                \o LittleEndian(Len(args.proof), 4)
                \o ProofChunks(args.proof))

\* role: 0 = Writable, 1 = WritableSigner, 2 = Readonly, 3 = ReadonlySigner
toAccountMetaMutKitRoles(meta) ==
    [address |-> meta.pubkey,
     role |-> (IF meta.isSigner THEN 2 ELSE 0) + (IF meta.isWritable THEN 1 ELSE 0)]
toAccountMeta(meta) ==
    [address |-> meta.pubkey,
     role |-> IF meta.isWritable /\ meta.isSigner THEN 1
              ELSE IF meta.isWritable THEN 0
              ELSE IF meta.isSigner THEN 3
              ELSE 2]

\* the execute instruction: discriminator and arguments, the six accounts of
\* the MCM program, then the accounts of the operation
buildExecuteInstruction(params) ==
    LET argsEncoded == encodeExecuteArgs(params.args)
        pdas == params.pdas
    IN  IF ~IsVal(argsEncoded) THEN argsEncoded
        ELSE Some(
          [programAddress |-> params.mcmProgram,
           accounts |->
             << toAccountMeta(AccountMeta(pdas.multisigConfig, FALSE, TRUE)),
                toAccountMeta(AccountMeta(pdas.rootMetadata, FALSE, FALSE)),
                toAccountMeta(AccountMeta(pdas.expiringRootAndOpCount, FALSE, TRUE)),
                toAccountMeta(AccountMeta(params.to, FALSE, FALSE)),
                toAccountMeta(AccountMeta(pdas.multisigSigner, FALSE, FALSE)),
                toAccountMeta(AccountMeta(params.authority, TRUE, TRUE)) >>
             \o [k \in 1..Len(params.remainingAccounts) |->
                    toAccountMeta(params.remainingAccounts[k])],
           data |-> instructionDiscriminator(ExecuteName) \o Val(argsEncoded)])

(***************************************************************************)
(* MCM simulation: createMcmSimulation and its run by the engine           *)
(***************************************************************************)
MaxSimOps == 2
\* lamports as whole SOL and the rest: sol * 10^9 + rest
Lamports(sol, rest) == [sol |-> sol, rest |-> rest]
\* 100_000_000_000n: the airdrop of a generated authority
AUTHORITY_AIRDROP == Lamports(100, 0)
\* 1_000_000n: the balance of the two override accounts
OVERRIDE_LAMPORTS == Lamports(0, 1000000)
\* seconds between the simulated time and the expiry
CLOCK_MARGIN == 3600

\* addresses: the MCM program, its four derived addresses, the authority
\* PublicKey.unique() generates
MCM_PROGRAM == 10
GeneratedAuthority == 20
deriveMcmPdas(mcmProgram, multisigId) ==
    [multisigConfig |-> 11, rootMetadata |-> 12,
     expiringRootAndOpCount |-> 13, multisigSigner |-> 14]

\* the instructions of a proposal: all four combinations of the two flags occur
SimInstructions ==
    Instructions \cup {Instruction(3, <<9>>, <<AccountMeta(4, TRUE, TRUE)>>)}
SimInstructionLists == UNION {[1..n -> SimInstructions] : n \in 1..MaxSimOps}
ValidUntilChoices == {1800, 7200, 2147483647}
ChainIdChoices == {BigInt(300), Big(1, 0)}
PreOpCountChoices == {BigInt(0), BigInt(66000)}
\* validated proposals: postOpCount - preOpCount instructions, at least one
SimProposals ==
    {[Proposal(ixs, pre) EXCEPT !.validUntil = vu,
                                !.rootMetadata.chainId = cid,
                                !.rootMetadata.overridePreviousRoot = ov] :
        ixs \in SimInstructionLists, pre \in PreOpCountChoices,
        vu \in ValidUntilChoices, cid \in ChainIdChoices, ov \in BOOLEAN}
AuthorityChoices == {JsUndefined, Some(9)}
\* the configuration runMcmSimulation hands over: the proposal with its root
McmSimulationConfig(p, a) ==
    [proposalWithRoot |-> computeMerkleRoot(p), mcmProgram |-> MCM_PROGRAM,
     authority |-> a]

\* an EncodedAccount owned by the MCM program
EncodedAccount(address, data) ==
    [address |-> address, lamports |-> OVERRIDE_LAMPORTS, data |-> data,
     programAddress |-> MCM_PROGRAM, executable |-> FALSE, space |-> Len(data)]

\* createMcmSimulation: what the callbacks of the returned Simulation close
\* over, or what the encoding of the two override accounts threw
createMcmSimulation(mcmConfig) ==
    LET pwr == mcmConfig.proposalWithRoot
        p == pwr.proposal
        pdas == deriveMcmPdas(mcmConfig.mcmProgram, p.multisigId)
        expiringRootData ==
            encodeExpiringRootAndOpCount(
                [root |-> Bytes32(pwr.root), validUntil |-> p.validUntil,
                 opCount |-> p.rootMetadata.preOpCount])
        rootMetadataData == encodeRootMetadata(p.rootMetadata)
    IN  IF ~IsVal(expiringRootData) THEN expiringRootData
        ELSE IF ~IsVal(rootMetadataData) THEN rootMetadataData
        ELSE Some(
          [mcmConfig |-> mcmConfig,
           authority |-> IF IsVal(mcmConfig.authority) THEN Val(mcmConfig.authority)
                         ELSE GeneratedAuthority,
           pdas |-> pdas,
           expiringRootAccount |->
               EncodedAccount(pdas.expiringRootAndOpCount, Val(expiringRootData)),
           rootMetadataAccount |->
               EncodedAccount(pdas.rootMetadata, Val(rootMetadataData))])

\* payer(): the authority, funded only when it was generated
mcmPayerMutAlwaysFunded(simulation) ==
    [address |-> simulation.authority, airdropAmount |-> Some(AUTHORITY_AIRDROP)]
mcmPayer(simulation) ==
    [address |-> simulation.authority,
     airdropAmount |-> IF ~IsVal(simulation.mcmConfig.authority)
                       THEN Some(AUTHORITY_AIRDROP) ELSE JsUndefined]

\* Array.from(new Set(accounts)): first occurrences, in order
RECURSIVE Unique(_)
Unique(accounts) ==
    IF accounts = <<>> THEN <<>>
    ELSE LET front == Unique(SubSeq(accounts, 1, Len(accounts) - 1))
             last == accounts[Len(accounts)]
         IN  IF last \in SeqToSet(front) THEN front ELSE Append(front, last)

\* the program and the accounts of every instruction, in order
RECURSIVE InstructionAddresses(_)
InstructionAddresses(ixs) ==
    IF ixs = <<>> THEN <<>>
    ELSE <<ixs[1].programId>>
            \o [k \in 1..Len(ixs[1].accounts) |-> ixs[1].accounts[k].pubkey]
            \o InstructionAddresses(Tail(ixs))

\* accountsToLoad()
mcmAccountsToLoad(simulation) ==
    Unique(<<simulation.mcmConfig.mcmProgram, simulation.pdas.multisigConfig,
             simulation.pdas.multisigSigner>>
           \o (IF IsVal(simulation.mcmConfig.authority)
               THEN <<simulation.authority>> ELSE <<>>)
           \o InstructionAddresses(simulation.mcmConfig.proposalWithRoot.proposal.instructions))

\* accountOverrides()
mcmAccountOverrides(simulation) ==
    << <<simulation.pdas.expiringRootAndOpCount, simulation.expiringRootAccount>>,
       <<simulation.pdas.rootMetadata, simulation.rootMetadataAccount>> >>

\* clockTimestamp(): BigInt(proposal.validUntil - 3600)
mcmClockTimestamp(simulation) ==
    simulation.mcmConfig.proposalWithRoot.proposal.validUntil - CLOCK_MARGIN

\* the nonce of operation k (0-based)
NonceOfMutFirst(p, k) == p.rootMetadata.preOpCount
NonceOf(p, k) == BigAdd(p.rootMetadata.preOpCount, k)

\* batches(): one execute instruction per operation, or what building one threw
mcmBatches(simulation) ==
    LET pwr == simulation.mcmConfig.proposalWithRoot
        p == pwr.proposal
        built == [k \in 1..Len(p.instructions) |->
                    buildExecuteInstruction(
                      [mcmProgram |-> simulation.mcmConfig.mcmProgram,
                       pdas |-> simulation.pdas,
                       args |-> [multisigId |-> p.multisigId,
                                 chainId |-> p.rootMetadata.chainId,
                                 nonce |-> NonceOf(p, k - 1),
                                 data |-> p.instructions[k].data,
                                 proof |-> [n \in 1..Len(pwr.operationProofs[k]) |->
                                              Bytes32(pwr.operationProofs[k][n])]],
                       to |-> p.instructions[k].programId,
                       remainingAccounts |-> p.instructions[k].accounts,
                       authority |-> simulation.authority])]
    IN  IF \E k \in 1..Len(built) : ~IsVal(built[k])
        THEN RangeError
        ELSE Some([k \in 1..Len(built) |-> <<Val(built[k])>>])

\* executeBatch, Instruction -> TransactionInstruction: the role read back
toTransactionInstruction(ix) ==
    [programId |-> ix.programAddress,
     keys |-> [k \in 1..Len(ix.accounts) |->
                 [pubkey |-> ix.accounts[k].address,
                  isSigner |-> ix.accounts[k].role = 1 \/ ix.accounts[k].role = 3,
                  isWritable |-> ix.accounts[k].role = 0 \/ ix.accounts[k].role = 1]],
     data |-> ix.data]

\* BigInt.prototype.toString: the decimal digits of a value below 2^64, the
\* only ones a report is made of
RECURSIVE Decimal(_)
Decimal(n) == IF n < 10 THEN <<n>> ELSE Append(Decimal(n \div 10), n % 10)
toString(value) == Decimal(value.r)

\* createSimulationReport: the instruction entries
createSimulationReport(results, pwr) ==
    [validUntil |-> pwr.proposal.validUntil,
     instructions |->
        [k \in 1..Len(results) |->
            [index |-> k - 1,
             nonce |-> toString(NonceOf(pwr.proposal, k - 1)),
             programId |-> pwr.proposal.instructions[k].programId,
             success |-> results[k].success]]]

InitSim ==
    /\ mode = "sim"
    /\ \E p \in SimProposals, a \in AuthorityChoices : mcfg = McmSimulationConfig(p, a)
    /\ spc = "createMcmSimulation"
    /\ msim = JsNull
    /\ mrun = [loaded |-> JsNull, slot |-> BigInt(0), unixTs |-> 0,
               sent |-> <<>>, report |-> JsNull]
    /\ EngineIdle /\ MutIdle /\ MerkleIdle /\ LeafIdle /\ McmIdle /\ FetchIdle /\ CliIdle

SimOthers == <<mode, engineVars, mutVars, mkVars, leafVars, mcmVars, fetchVars, cliVars, mcfg>>

\* await createMcmSimulation(config)
CreateSimulation ==
    /\ mode = "sim" /\ spc = "createMcmSimulation"
    /\ msim' = createMcmSimulation(mcfg)
    /\ spc' = IF IsVal(createMcmSimulation(mcfg)) THEN "load" ELSE "rejected"
    /\ UNCHANGED <<SimOthers, mrun>>

\* runSimulation, load stage: the addresses asked of the network
LoadStage ==
    /\ mode = "sim" /\ spc = "load"
    /\ mrun' = [mrun EXCEPT !.loaded = Some(mcmAccountsToLoad(Val(msim)))]
    /\ spc' = "clock"
    /\ UNCHANGED <<SimOthers, msim>>

\* runSimulation, clock stage: svm.warpToSlot(clockTimestamp()); the Clock's
\* slot becomes the instant, its unix_timestamp stays
ClockStage ==
    /\ mode = "sim" /\ spc = "clock"
    /\ mcmClockTimestamp(Val(msim)) >= 0
    /\ mrun' = [mrun EXCEPT !.slot = BigInt(mcmClockTimestamp(Val(msim)))]
    /\ spc' = "batch"
    /\ UNCHANGED <<SimOthers, msim>>

\* a negative bigint handed to warpToSlot, which takes a u64: the binding
\* throws, or takes the value modulo 2^64, or takes its magnitude
ClockStageNegative ==
    /\ mode = "sim" /\ spc = "clock"
    /\ mcmClockTimestamp(Val(msim)) < 0
    /\ \/ spc' = "rejected" /\ UNCHANGED mrun
       \/ /\ spc' = "batch"
          /\ \E slot \in {Big(1, mcmClockTimestamp(Val(msim))),
                          BigInt(0 - mcmClockTimestamp(Val(msim)))} :
                mrun' = [mrun EXCEPT !.slot = slot]
    /\ UNCHANGED <<SimOthers, msim>>

\* executeBatch of the next batch: payer, airdrop, conversion, submission; the
\* sandbox accepts or rejects the transaction
ExecuteBatch ==
    /\ mode = "sim" /\ spc = "batch"
    /\ IsVal(mcmBatches(Val(msim)))
    /\ Len(mrun.sent) < Len(Val(mcmBatches(Val(msim))))
    /\ LET batchIndex == Len(mrun.sent)
           instructions == Val(mcmBatches(Val(msim)))[batchIndex + 1]
           payerConfig == mcmPayer(Val(msim))
       IN  \E accepted \in BOOLEAN :
              mrun' = [mrun EXCEPT !.sent = Append(@,
                          [index |-> batchIndex,
                           feePayer |-> payerConfig.address,
                           airdropped |-> payerConfig.airdropAmount,
                           transaction |-> [k \in 1..Len(instructions) |->
                                              toTransactionInstruction(instructions[k])],
                           success |-> accepted])]
    /\ UNCHANGED <<SimOthers, msim, spc>>

\* createSimulationReport once every batch has its result
CreateSimulationReport ==
    /\ mode = "sim" /\ spc = "batch"
    /\ IsVal(mcmBatches(Val(msim)))
    /\ Len(mrun.sent) = Len(Val(mcmBatches(Val(msim))))
    /\ mrun' = [mrun EXCEPT !.report =
                  Some(createSimulationReport(mrun.sent, mcfg.proposalWithRoot))]
    /\ spc' = "done"
    /\ UNCHANGED <<SimOthers, msim>>

NextSim ==
    \/ CreateSimulation \/ LoadStage \/ ClockStage \/ ClockStageNegative
    \/ ExecuteBatch \/ CreateSimulationReport

SpecSim == InitSim /\ [][NextSim]_vars

(***************************************************************************)
(* Properties of the MCM simulation                                        *)
(***************************************************************************)
SimCreated == mode = "sim" /\ IsVal(msim)
SimProposal == mcfg.proposalWithRoot.proposal
\* the data of the execute instruction sent for batch k (1-based), and the
\* arguments after the discriminator
SentData(k) == mrun.sent[k].transaction[1].data
SentArgs(k) == SubSeq(SentData(k), 9, Len(SentData(k)))
SentKeys(k) == mrun.sent[k].transaction[1].keys

\* C23: the execute arguments are 56 + len(data) + 32*len(proof) bytes: the
\* 32-byte multisigId, chain id and nonce as 8-byte little-endian words, the
\* data behind its 4-byte little-endian length, the proof elements in order, 32
\* bytes each, behind their 4-byte little-endian count; the instruction data is
\* the 8-byte execute discriminator followed by these bytes.
C23_ExecutePayloadLayout ==
    SimCreated =>
        \A k \in 1..Len(mrun.sent) :
            LET ix == SimProposal.instructions[k]
                proof == mcfg.proposalWithRoot.operationProofs[k]
                d == Len(ix.data)
                a == SentArgs(k)
            IN  /\ Len(a) = 56 + d + 32 * Len(proof)
                /\ Len(SentData(k)) = 8 + Len(a)
                /\ SubSeq(SentData(k), 1, 8) = instructionDiscriminator(ExecuteName)
                /\ SubSeq(a, 1, 32) = SimProposal.multisigId
                /\ SubSeq(a, 33, 40) = LittleEndian(SimProposal.rootMetadata.chainId.r, 8)
                /\ SubSeq(a, 41, 48)
                      = LittleEndian(SimProposal.rootMetadata.preOpCount.r + k - 1, 8)
                /\ SubSeq(a, 49, 52) = LittleEndian(d, 4)
                /\ SubSeq(a, 53, 52 + d) = ix.data
                /\ SubSeq(a, 53 + d, 56 + d) = LittleEndian(Len(proof), 4)
                /\ \A n \in 1..Len(proof) :
                      SubSeq(a, 56 + d + 32 * (n - 1) + 1, 56 + d + 32 * n)
                          = Bytes32(proof[n])

\* the first of two operations was sent: two bytes of data, a nonce of three
\* bytes, a proof of two different elements
C23_Witness ==
    /\ SimCreated
    /\ Len(SimProposal.instructions) = 2
    /\ Len(mrun.sent) >= 1
    /\ Len(SimProposal.instructions[1].data) = 2
    /\ SimProposal.rootMetadata.preOpCount = BigInt(66000)
    /\ Len(mcfg.proposalWithRoot.operationProofs[1]) = 2
    /\ mcfg.proposalWithRoot.operationProofs[1][1] # mcfg.proposalWithRoot.operationProofs[1][2]
    /\ Len(SentArgs(1)) = 56 + 2 + 64

\* C24: the payer of every batch is the authority; it gets the 100 SOL airdrop
\* before each batch if and only if no authority was configured; a configured
\* authority is never funded and is among accountsToLoad(); a generated one is
\* not loaded from the network.
C24_PayerIsTheAuthority ==
    SimCreated =>
        /\ \A k \in 1..Len(mrun.sent) :
              /\ mrun.sent[k].feePayer = Val(msim).authority
              /\ mrun.sent[k].airdropped = Some(AUTHORITY_AIRDROP) <=> ~IsVal(mcfg.authority)
              /\ IsVal(mcfg.authority) => mrun.sent[k].airdropped = JsUndefined
        /\ IsVal(mcfg.authority) => Val(msim).authority = Val(mcfg.authority)
        /\ IsVal(mrun.loaded) =>
              (Val(msim).authority \in SeqToSet(Val(mrun.loaded))) <=> IsVal(mcfg.authority)

\* a configured authority paid for two batches without any airdrop, and was
\* loaded
C24_Witness ==
    /\ SimCreated
    /\ mcfg.authority = Some(9)
    /\ Len(mrun.sent) = 2
    /\ mrun.sent[2].feePayer = 9 /\ mrun.sent[2].airdropped = JsUndefined
    /\ 9 \in SeqToSet(Val(mrun.loaded))

\* the bytes hashed into operation leaf k (1-based): a digest is named by its
\* pre-image, and the nonce is the fourth 32-byte word of it
LeafPreimage(k) == Tail(AllLeaves(SimProposal)[k + 1])
LeafNonceWord(k) ==
    SubSeq(LeafPreimage(k), Len(DOMAIN_SEPARATOR_OP) + 64 + 1, Len(DOMAIN_SEPARATOR_OP) + 96)

\* C25: for every operation index i, the nonce hashed into operation leaf i+1,
\* the nonce in the execute payload of batch i and the nonce of report entry i
\* are all preOpCount + i; the first is preOpCount, the last postOpCount - 1;
\* and the proof embedded in batch i is the proof of that leaf.
C25_OneNonceEverywhere ==
    (SimCreated /\ spc = "done") =>
        LET p == SimProposal
            pre == p.rootMetadata.preOpCount.r
            built == buildMerkleTree(AllLeaves(p))
            report == Val(mrun.report)
        IN  /\ Len(report.instructions) = Len(p.instructions)
            /\ built.root = mcfg.proposalWithRoot.root
            /\ \A k \in 1..Len(p.instructions) :
                  /\ LeafNonceWord(k) = Zeros(24) \o LittleEndian(pre + k - 1, 8)
                  /\ FromLittleEndian(SubSeq(SentArgs(k), 41, 48)) = pre + k - 1
                  /\ report.instructions[k].nonce = Decimal(pre + k - 1)
                  /\ report.instructions[k].index = k - 1
                  /\ FromLittleEndian(SubSeq(SentArgs(k), 41, 48))
                        < p.rootMetadata.postOpCount.r
                  /\ LET d == Len(p.instructions[k].data)
                         proof == built.proofs[k + 1]
                     IN  /\ FromLittleEndian(SubSeq(SentArgs(k), 53 + d, 56 + d)) = Len(proof)
                         /\ SubSeq(SentArgs(k), 57 + d, Len(SentArgs(k)))
                               = ProofChunks([n \in 1..Len(proof) |-> Bytes32(proof[n])])
                         /\ FoldProof(AllLeaves(p)[k + 1], proof) = built.root
            /\ FromLittleEndian(SubSeq(SentArgs(1), 41, 48)) = pre
            /\ FromLittleEndian(SubSeq(SentArgs(Len(p.instructions)), 41, 48))
                  = p.rootMetadata.postOpCount.r - 1

\* two operations from 66000 on: the report shows 66000 and 66001
C25_Witness ==
    /\ SimCreated /\ spc = "done"
    /\ Len(SimProposal.instructions) = 2
    /\ SimProposal.rootMetadata.preOpCount = BigInt(66000)
    /\ Val(mrun.report).instructions[1].nonce = <<6, 6, 0, 0, 0>>
    /\ Val(mrun.report).instructions[2].nonce = <<6, 6, 0, 0, 1>>
    /\ FromLittleEndian(SubSeq(SentArgs(2), 41, 48)) = 66001

\* the two structures createMcmSimulation encodes
ExpiringRootOf(simulation) ==
    [root |-> Bytes32(simulation.mcmConfig.proposalWithRoot.root),
     validUntil |-> simulation.mcmConfig.proposalWithRoot.proposal.validUntil,
     opCount |-> simulation.mcmConfig.proposalWithRoot.proposal.rootMetadata.preOpCount]
RootMetadataOf(simulation) == simulation.mcmConfig.proposalWithRoot.proposal.rootMetadata

\* C28: decoding the encoding of an ExpiringRootAndOpCount (32-byte root, u32
\* validUntil, u64 opCount) gives it back and the encoding is 52 bytes; decoding
\* the encoding of a RootMetadata (u64 chain id and counts) gives it back and
\* the encoding is 65 bytes; both start with the 8-byte account discriminator.
C28_AccountsRoundTrip ==
    SimCreated =>
        LET x == ExpiringRootOf(Val(msim))
            y == RootMetadataOf(Val(msim))
            xBytes == Val(msim).expiringRootAccount.data
            yBytes == Val(msim).rootMetadataAccount.data
        IN  /\ encodeExpiringRootAndOpCount(x) = Some(xBytes)
            /\ decodeExpiringRootAndOpCount(xBytes) = x
            /\ Len(xBytes) = 52
            /\ SubSeq(xBytes, 1, 8) = accountDiscriminator(ExpiringRootAndOpCountName)
            /\ encodeRootMetadata(y) = Some(yBytes)
            /\ decodeRootMetadata(yBytes) = y
            /\ Len(yBytes) = 65
            /\ SubSeq(yBytes, 1, 8) = accountDiscriminator(RootMetadataName)
            /\ Len(accountDiscriminator(RootMetadataName)) = 8

\* every byte of validUntil and three bytes of the counts are in use, and the
\* flag is set
C28_Witness ==
    /\ SimCreated
    /\ SimProposal.validUntil = 2147483647
    /\ SimProposal.rootMetadata.preOpCount = BigInt(66000)
    /\ SimProposal.rootMetadata.chainId = BigInt(300)
    /\ SimProposal.rootMetadata.overridePreviousRoot
    /\ decodeRootMetadata(Val(msim).rootMetadataAccount.data).postOpCount.r > 66000

\* the flags executeBatch reads back from the role toAccountMeta assigns
FlagsThroughRole(meta) ==
    toTransactionInstruction(
        [programAddress |-> MCM_PROGRAM, accounts |-> <<toAccountMeta(meta)>>,
         data |-> <<>>]).keys[1]

\* C29: for each of the four combinations of (isSigner, isWritable), the role
\* toAccountMeta assigns is read back by executeBatch as the same flags; every
\* account of an operation reaches the sandbox with the flags the proposal
\* declares, behind the authority as signer and writable.
C29_FlagsSurviveTheRole ==
    SimCreated =>
        /\ \A sg \in BOOLEAN, wr \in BOOLEAN :
              FlagsThroughRole(AccountMeta(1, sg, wr)) = AccountMeta(1, sg, wr)
        /\ \A k \in 1..Len(mrun.sent) :
              LET declared == SimProposal.instructions[k].accounts
              IN  /\ Len(SentKeys(k)) = 6 + Len(declared)
                  /\ SentKeys(k)[6] = AccountMeta(Val(msim).authority, TRUE, TRUE)
                  /\ \A n \in 1..Len(declared) : SentKeys(k)[6 + n] = declared[n]

\* a signer, a writable signer and two other accounts were sent in two batches
C29_Witness ==
    /\ SimCreated
    /\ Len(mrun.sent) = 2
    /\ Len(SentKeys(1)) = 7 /\ Len(SentKeys(2)) = 8
    /\ SentKeys(1)[7] = AccountMeta(4, TRUE, TRUE)
    /\ SentKeys(2)[7] = AccountMeta(2, TRUE, FALSE)
    /\ SentKeys(2)[8] = AccountMeta(3, FALSE, FALSE)

\* C30: clockTimestamp() is validUntil - 3600, a non-negative instant strictly
\* before validUntil that the clock stage applies: every batch executes with the
\* sandbox's time one hour before the proposal expires.
C30_OneHourBeforeExpiry ==
    (SimCreated /\ spc \in {"batch", "done"}) =>
        LET t == mcmClockTimestamp(Val(msim))
        IN  /\ t = SimProposal.validUntil - 3600
            /\ t >= 0
            /\ t < SimProposal.validUntil
            /\ mrun.unixTs = t

\* the part of C30 that does hold: the instant asked for is validUntil - 3600
\* and, when it is not negative, it is what the clock stage hands to the sandbox
ClockAsksForOneHourBefore ==
    (SimCreated /\ spc \in {"batch", "done"}) =>
        /\ mcmClockTimestamp(Val(msim)) = SimProposal.validUntil - 3600
        /\ mcmClockTimestamp(Val(msim)) >= 0 => mrun.slot = BigInt(mcmClockTimestamp(Val(msim)))

====
